---- MODULE Spec2Model ----
(***************************************************************************)
(* midiccmap: a MIDI filter that remaps control changes, channel           *)
(* aftertouch and pitch bend to CC, NRPN, RPN, pitch bend or aftertouch.   *)
(* The model follows src/midiccmap.c (the setMidiMap version, lines        *)
(* 1391-2234): the mapping table and its set operations, the scaling and   *)
(* encoding functions midiSend*, and main's option loop, read loop and     *)
(* byte-by-byte state machine.                                             *)
(*                                                                         *)
(* Integer widths: int and unsigned int are 32 bits, long is 64 bits       *)
(* (LP64 Linux, the platform of the README's build instructions).  TLC's   *)
(* integers are 32 bits, so the one unsigned wrap-around the code can      *)
(* reach (val * negative difference, in midiSendParm and midiSendCc) is    *)
(* computed on 16-bit halves.                                              *)
(***************************************************************************)
EXTENDS Integers, Sequences, FiniteSets, TLC

VARIABLES
    pc,               \* where main is: "args", "open", "read", "for", "exit"
    args,             \* command-line pairs and ini data lines not yet applied
    applied,          \* those a set operation has accepted so far, in order
    dev,              \* the bytes the MIDI peer may send once its script is played
    feed,             \* the script: bytes the peer sends first, in this order
    nfree,            \* number of bytes read that were not part of the script
    msgs,             \* what errormessage() printed while the maps were set
    ccMaps,           \* struct MidiMap ccMaps[map_size]
    atMap,            \* struct MidiMap atMap
    pbMap,            \* struct MidiMap pbMap
    keepRunning,      \* static volatile int keepRunning
    pending,          \* count - i: bytes of the current chunk not yet examined
    runningStatusIn,  \* last status byte read
    runningStatusOut, \* last status byte written
    channel,
    ccNum,
    pbLSB,
    readState,
    exitStatus,       \* the process's exit status, -1 while it runs
    inp,              \* every byte examined so far, in order
    out,              \* every byte written so far, in order
    lastWrite,        \* the buffer of the latest midiSend call, <<>> before the first
    lastEvent         \* what that call was for

vars == <<pc, args, applied, dev, feed, nfree, msgs, ccMaps, atMap, pbMap, keepRunning,
          pending, runningStatusIn, runningStatusOut, channel, ccNum, pbLSB,
          readState, exitStatus, inp, out, lastWrite, lastEvent>>

(***************************************************************************)
(* Bounds of the model.                                                    *)
(***************************************************************************)
MaxInput == 4     \* bytes the peer sends beyond its script
MaxChunk == 2     \* bytes one snd_rawmidi_read returns (buf_size in the code)
MaxItems == 2     \* command-line pairs and ini data lines of a configuration

(***************************************************************************)
(* Constants of the program.                                               *)
(***************************************************************************)
map_size == 128

MapTypes == {"NONE", "NRPN", "RPN", "CC", "PB", "AT"}
mapNumMax      == [NONE |-> 0, NRPN |-> 16383, RPN |-> 16383, CC |-> 127, PB |-> 0, AT |-> 0]
mapToMin       == [NONE |-> 0, NRPN |-> 0, RPN |-> 0, CC |-> 0, PB |-> 0, AT |-> 0]
mapToMax       == [NONE |-> 16383, NRPN |-> 16383, RPN |-> 16383, CC |-> 127, PB |-> 16383, AT |-> 127]
mapFromDefault == [NONE |-> 0, NRPN |-> 0, RPN |-> 0, CC |-> 0, PB |-> 0, AT |-> 0]
mapToDefault   == [NONE |-> 0, NRPN |-> 16383, RPN |-> 16383, CC |-> 127, PB |-> 8191, AT |-> 127]

MidiMap(type, num, valFrom, valTo) ==
    [type |-> type, num |-> num, valFrom |-> valFrom, valTo |-> valTo]

(***************************************************************************)
(* C arithmetic.                                                           *)
(***************************************************************************)
\* Signed division, truncating toward zero (b > 0).
TruncDiv(a, b) == IF a >= 0 THEN a \div b ELSE -((-a) \div b)

\* x & 0x7F and (x >> 7) & 0x7F on a value that is not negative.
Lo7(x) == x % 128
Hi7(x) == (x \div 128) % 128

\* (val * diff) / max computed in unsigned int, as C does when val and max are
\* unsigned int and diff is int: a negative diff is converted to 2^32 + diff,
\* the product is taken modulo 2^32 and the division is unsigned.
\* For diff < 0 and m = val * (-diff) in 1 .. 2^31, 2^32 - m is held as
\* hi * 2^16 + lo.
UDivNeg(m, max) ==
    LET hi == 65535 - ((m - 1) \div 65536)
        lo == 65535 - ((m - 1) % 65536)
    IN  (hi \div max) * 65536 + (((hi % max) * 65536 + lo) \div max)

UMulDiv(val, diff, max) ==
    IF diff >= 0 \/ val = 0
    THEN (val * diff) \div max
    ELSE UDivNeg(val * (-diff), max)

(***************************************************************************)
(* The scaled values, as each function computes them.                      *)
(***************************************************************************)
\* Faulty variant: the source value shifted left by seven bits in place of
\* the division by max.
ParmValShifted(map, val, max) ==
    LET parmVal == map.valFrom + UMulDiv(val, map.valTo - map.valFrom, max + 1)
    IN  IF parmVal < 0 THEN 0 ELSE IF parmVal > 16383 THEN 16383 ELSE parmVal

\* midiSendParm: int parmVal = valFrom + val * (valTo - valFrom) / max, with
\* val and max unsigned int; clipped to 0 .. 16383.
ParmVal(map, val, max) ==
    LET parmVal == map.valFrom + UMulDiv(val, map.valTo - map.valFrom, max)
    IN  IF parmVal < 0 THEN 0 ELSE IF parmVal > 16383 THEN 16383 ELSE parmVal

\* midiSendCc: the same expression stored in an unsigned char ccVal, so it is
\* reduced modulo 256 before the tests; ccVal < 0 is never true.
CcVal(map, val, max) ==
    LET ccVal == (map.valFrom + UMulDiv(val, map.valTo - map.valFrom, max)) % 256
    IN  IF ccVal > 127 THEN 127 ELSE ccVal

\* Faulty variant: the pitch-bend value clipped to the signed maximum 8191.
PbValSignedMax(map, val, max) ==
    LET pbVal == map.valFrom + TruncDiv(val * (map.valTo - map.valFrom), max)
    IN  IF pbVal < 0 THEN 0 ELSE IF pbVal > 8191 THEN 8191 ELSE pbVal

\* midiSendPb: long pbVal, the product and the division are signed (long).
PbVal(map, val, max) ==
    LET pbVal == map.valFrom + TruncDiv(val * (map.valTo - map.valFrom), max)
    IN  IF pbVal < 0 THEN 0 ELSE IF pbVal > 16383 THEN 16383 ELSE pbVal

\* midiSendAt: long atVal, signed as in midiSendPb; clipped to 0 .. 127.
AtVal(map, val, max) ==
    LET atVal == map.valFrom + TruncDiv(val * (map.valTo - map.valFrom), max)
    IN  IF atVal < 0 THEN 0 ELSE IF atVal > 127 THEN 127 ELSE atVal

\* Faulty variant: the lower clip of PROCESS_CC_CC left out.
CcCcValNoLowerClip(map, byte) ==
    LET ccVal == map.valFrom + TruncDiv(byte * (map.valTo - map.valFrom), 127)
    IN  IF ccVal > 127 THEN 127 ELSE ccVal

\* Faulty variant: the quotient of PROCESS_CC_CC rounded to the nearest
\* integer (upward ranges).
CcCcValRounded(map, byte) ==
    LET ccVal == map.valFrom + TruncDiv(byte * (map.valTo - map.valFrom) + 63, 127)
    IN  IF ccVal < 0 THEN 0 ELSE IF ccVal > 127 THEN 127 ELSE ccVal

\* Faulty variant: the upper clip of PROCESS_CC_CC left out.
CcCcValNoUpperClip(map, byte) ==
    LET ccVal == map.valFrom + TruncDiv(byte * (map.valTo - map.valFrom), 127)
    IN  IF ccVal < 0 THEN 0 ELSE ccVal

\* PROCESS_CC_CC: int ccVal, signed int arithmetic on the data byte.
CcCcVal(map, byte) ==
    LET ccVal == map.valFrom + TruncDiv(byte * (map.valTo - map.valFrom), 127)
    IN  IF ccVal < 0 THEN 0 ELSE IF ccVal > 127 THEN 127 ELSE ccVal

(***************************************************************************)
(* The encoders: the buffer each function passes to midiSend.              *)
(***************************************************************************)
\* The status byte, unless it is the running status of the output.
StatusIfNew(newStatusOut, rsOut) ==
    IF newStatusOut # rsOut THEN <<newStatusOut>> ELSE <<>>

\* Faulty variant: the RPN null terminator sent only together with a status byte.
midiSendParmNoEnd(rsOut, chan, map, val, max) ==
    LET parmVal == ParmVal(map, val, max)
        isRpn   == map.type = "RPN"
    IN  StatusIfNew(\hB0 + chan, rsOut) \o
        << IF isRpn THEN \h65 ELSE \h63, Hi7(map.num),
           IF isRpn THEN \h64 ELSE \h62, Lo7(map.num),
           \h06, Hi7(parmVal),
           \h26, Lo7(parmVal) >> \o
        (IF \hB0 + chan # rsOut THEN << \h65, \h7F, \h64, \h7F >> ELSE <<>>)

\* Faulty variant: data entry LSB and MSB exchanged.
midiSendParmSwapped(rsOut, chan, map, val, max) ==
    LET parmVal == ParmVal(map, val, max)
        isRpn   == map.type = "RPN"
    IN  StatusIfNew(\hB0 + chan, rsOut) \o
        << IF isRpn THEN \h65 ELSE \h63, Hi7(map.num),
           IF isRpn THEN \h64 ELSE \h62, Lo7(map.num),
           \h06, Lo7(parmVal),
           \h26, Hi7(parmVal),
           \h65, \h7F, \h64, \h7F >>

midiSendParm(rsOut, chan, map, val, max) ==
    LET parmVal == ParmVal(map, val, max)
        isRpn   == map.type = "RPN"
    IN  StatusIfNew(\hB0 + chan, rsOut) \o
        << IF isRpn THEN \h65 ELSE \h63, Hi7(map.num),
           IF isRpn THEN \h64 ELSE \h62, Lo7(map.num),
           \h06, Hi7(parmVal),
           \h26, Lo7(parmVal),
           \h65, \h7F, \h64, \h7F >>

midiSendCc(rsOut, chan, map, val, max) ==
    StatusIfNew(\hB0 + chan, rsOut) \o << map.num % 256, CcVal(map, val, max) >>

\* Faulty variant: the pitch-bend data bytes sent MSB first.
midiSendPbMsbFirst(rsOut, chan, map, val, max) ==
    LET pbVal == PbVal(map, val, max)
    IN  StatusIfNew(\hE0 + chan, rsOut) \o << Hi7(pbVal), Lo7(pbVal) >>

\* Faulty variant: the pitch bend sent on channel 0 whatever the channel.
midiSendPbChannel0(rsOut, chan, map, val, max) ==
    LET pbVal == PbVal(map, val, max)
    IN  StatusIfNew(\hE0, rsOut) \o << Lo7(pbVal), Hi7(pbVal) >>

midiSendPb(rsOut, chan, map, val, max) ==
    LET pbVal == PbVal(map, val, max)
    IN  StatusIfNew(\hE0 + chan, rsOut) \o << Lo7(pbVal), Hi7(pbVal) >>

midiSendAt(rsOut, chan, map, val, max) ==
    StatusIfNew(\hD0 + chan, rsOut) \o << Lo7(AtVal(map, val, max)) >>

\* Faulty variant: real-time bytes F8 .. FF do not count as status bytes.
RECURSIVE StatusAfterSkipsRealTime(_, _)
StatusAfterSkipsRealTime(buf, status) ==
    IF buf = <<>> THEN status
    ELSE IF buf[Len(buf)] \in 128 .. \hF7 THEN buf[Len(buf)]
    ELSE StatusAfterSkipsRealTime(SubSeq(buf, 1, Len(buf) - 1), status)

\* midiSend's update of *status: the last byte of the buffer with bit 7 set.
RECURSIVE StatusAfter(_, _)
StatusAfter(buf, status) ==
    IF buf = <<>> THEN status
    ELSE IF buf[Len(buf)] >= 128 THEN buf[Len(buf)]
    ELSE StatusAfter(SubSeq(buf, 1, Len(buf) - 1), status)

(***************************************************************************)
(* The mapping table and its set operations.                               *)
(***************************************************************************)
\* Faulty variant: a slot that already holds a mapping keeps it.
setMidiMapKeepsFirst(map, destType, destNum, destValFrom, destValTo) ==
    LET badNum   == IF destType \in {"CC", "RPN", "NRPN"}
                    THEN destNum > mapNumMax[destType]
                    ELSE destNum # 0
        override == IF map.type # "NONE" THEN <<"override">> ELSE <<>>
        valMin   == mapToMin[destType]
        valMax   == mapToMax[destType]
        unusable == \/ (destValFrom < valMin /\ destValTo < valMin)
                    \/ (destValFrom > valMax /\ destValTo > valMax)
        clipped  == \/ destValFrom < valMin \/ destValTo < valMin
                    \/ destValFrom > valMax \/ destValTo > valMax
    IN  IF badNum
        THEN [err |-> -1, map |-> map, msgs |-> <<"invalid destination">>]
        ELSE IF unusable
        THEN [err |-> -1, map |-> map, msgs |-> override \o <<"unusable range">>]
        ELSE [err |-> 0,
              map |-> IF map.type # "NONE" THEN map
                      ELSE MidiMap(destType, destNum, destValFrom, destValTo),
              msgs |-> override \o (IF clipped THEN <<"clipped">> ELSE <<>>)]

\* Faulty variant: bounds outside the legal range are brought to its nearer
\* end when the entry is stored.
setMidiMapClamped(map, destType, destNum, destValFrom, destValTo) ==
    LET badNum   == IF destType \in {"CC", "RPN", "NRPN"}
                    THEN destNum > mapNumMax[destType]
                    ELSE destNum # 0
        override == IF map.type # "NONE" THEN <<"override">> ELSE <<>>
        valMin   == mapToMin[destType]
        valMax   == mapToMax[destType]
        unusable == \/ (destValFrom < valMin /\ destValTo < valMin)
                    \/ (destValFrom > valMax /\ destValTo > valMax)
        clipped  == \/ destValFrom < valMin \/ destValTo < valMin
                    \/ destValFrom > valMax \/ destValTo > valMax
        clamp(v) == IF v < valMin THEN valMin ELSE IF v > valMax THEN valMax ELSE v
    IN  IF badNum
        THEN [err |-> -1, map |-> map, msgs |-> <<"invalid destination">>]
        ELSE IF unusable
        THEN [err |-> -1, map |-> map, msgs |-> override \o <<"unusable range">>]
        ELSE [err |-> 0,
              map |-> MidiMap(destType, destNum, clamp(destValFrom), clamp(destValTo)),
              msgs |-> override \o (IF clipped THEN <<"clipped">> ELSE <<>>)]

\* setMidiMap: the value returned, the entry left in *map and what
\* errormessage() printed.
\* Faulty variant: the entry is stored before the range is checked.
setMidiMapStoresFirst(map, destType, destNum, destValFrom, destValTo) ==
    LET badNum   == IF destType \in {"CC", "RPN", "NRPN"}
                    THEN destNum > mapNumMax[destType]
                    ELSE destNum # 0
        override == IF map.type # "NONE" THEN <<"override">> ELSE <<>>
        valMin   == mapToMin[destType]
        valMax   == mapToMax[destType]
        unusable == \/ (destValFrom < valMin /\ destValTo < valMin)
                    \/ (destValFrom > valMax /\ destValTo > valMax)
        clipped  == \/ destValFrom < valMin \/ destValTo < valMin
                    \/ destValFrom > valMax \/ destValTo > valMax
        entry    == MidiMap(destType, destNum, destValFrom, destValTo)
    IN  IF badNum
        THEN [err |-> -1, map |-> map, msgs |-> <<"invalid destination">>]
        ELSE IF unusable
        THEN [err |-> -1, map |-> entry, msgs |-> override \o <<"unusable range">>]
        ELSE [err |-> 0, map |-> entry,
              msgs |-> override \o (IF clipped THEN <<"clipped">> ELSE <<>>)]

setMidiMap(map, destType, destNum, destValFrom, destValTo) ==
    LET badNum   == IF destType \in {"CC", "RPN", "NRPN"}
                    THEN destNum > mapNumMax[destType]
                    ELSE destNum # 0
        override == IF map.type # "NONE" THEN <<"override">> ELSE <<>>
        valMin   == mapToMin[destType]
        valMax   == mapToMax[destType]
        unusable == \/ (destValFrom < valMin /\ destValTo < valMin)
                    \/ (destValFrom > valMax /\ destValTo > valMax)
        clipped  == \/ destValFrom < valMin \/ destValTo < valMin
                    \/ destValFrom > valMax \/ destValTo > valMax
    IN  IF badNum
        THEN [err |-> -1, map |-> map, msgs |-> <<"invalid destination">>]
        ELSE IF unusable
        THEN [err |-> -1, map |-> map, msgs |-> override \o <<"unusable range">>]
        ELSE [err |-> 0,
              map |-> MidiMap(destType, destNum, destValFrom, destValTo),
              msgs |-> override \o (IF clipped THEN <<"clipped">> ELSE <<>>)]

\* The three tables as one record, so that a set operation is a function of it.
Maps(cc, at, pb) == [cc |-> cc, at |-> at, pb |-> pb]

\* Faulty variant: controller 127 taken as out of range.
setCcMapShort(maps, m, ccNumArg, destNum, destValFrom, destValTo) ==
    IF ccNumArg >= map_size - 1
    THEN [err |-> -1, maps |-> maps, msgs |-> <<"invalid source">>]
    ELSE LET r == setMidiMap(maps.cc[ccNumArg], m, destNum, destValFrom, destValTo)
         IN  [err |-> r.err,
              maps |-> [maps EXCEPT !.cc[ccNumArg] = r.map],
              msgs |-> r.msgs]

setCcMap(maps, m, ccNumArg, destNum, destValFrom, destValTo) ==
    IF ccNumArg >= map_size
    THEN [err |-> -1, maps |-> maps, msgs |-> <<"invalid source">>]
    ELSE LET r == setMidiMap(maps.cc[ccNumArg], m, destNum, destValFrom, destValTo)
         IN  [err |-> r.err,
              maps |-> [maps EXCEPT !.cc[ccNumArg] = r.map],
              msgs |-> r.msgs]

setAtMap(maps, m, destNum, destValFrom, destValTo) ==
    LET r == setMidiMap(maps.at, m, destNum, destValFrom, destValTo)
    IN  [err |-> r.err, maps |-> [maps EXCEPT !.at = r.map], msgs |-> r.msgs]

setPbMap(maps, m, destNum, destValFrom, destValTo) ==
    LET r == setMidiMap(maps.pb, m, destNum, destValFrom, destValTo)
    IN  [err |-> r.err, maps |-> [maps EXCEPT !.pb = r.map], msgs |-> r.msgs]

\* The globals before init_maps: static storage, all zero (type NONE).
ZeroMap == MidiMap("NONE", 0, 0, 0)

\* init_maps, followed by main's atMap.type = NONE.
init_maps ==
    Maps([i \in 0 .. map_size - 1 |->
             setMidiMap(ZeroMap, "NONE", 0, mapToMin["CC"], mapToMax["CC"]).map],
         setMidiMap(ZeroMap, "NONE", 0, mapToMin["AT"], mapToMax["AT"]).map,
         setMidiMap(ZeroMap, "NONE", 0, mapToMin["PB"], mapToMax["PB"]).map)

(***************************************************************************)
(* Configuration items: a command-line pair (source, destination) under    *)
(* the current option -n -r -c -p -a, or a data line of an ini section.    *)
(* A data line names its source (a CC number, AT or PB), the destination   *)
(* number n2 (not read in [ToPb] and [ToAt]) and nvals = 0, 1 or 2 range    *)
(* values.                                                                 *)
(***************************************************************************)
Cli(dest, n1, n2) ==
    [origin |-> "cli", dest |-> dest, sel |-> "CC", n1 |-> n1, n2 |-> n2,
     nvals |-> 0, v1 |-> 0, v2 |-> 0]

Ini(dest, sel, n1, n2, nvals, v1, v2) ==
    [origin |-> "ini", dest |-> dest, sel |-> sel, n1 |-> n1, n2 |-> n2,
     nvals |-> nvals, v1 |-> v1, v2 |-> v2]

\* Faulty variant: the lower bound of a [ToPb] line passed as it is written.
ItemFromNoOffset(item) ==
    IF item.origin = "cli" THEN mapFromDefault[item.dest]
    ELSE IF item.nvals >= 1 THEN item.v1 ELSE mapFromDefault[item.dest]

\* The bounds readIniFile passes for a data line, and main for a pair.
ItemFrom(item) ==
    IF item.origin = "cli" THEN mapFromDefault[item.dest]
    ELSE (IF item.nvals >= 1 THEN item.v1 ELSE mapFromDefault[item.dest])
         + (IF item.dest = "PB" THEN 8192 ELSE 0)

\* Faulty variant: the upper bound of a [ToPb] line passed as it is written.
ItemToNoOffset(item) ==
    IF item.origin = "cli" THEN mapToDefault[item.dest]
    ELSE IF item.nvals >= 2 THEN item.v2 ELSE mapToDefault[item.dest]

ItemTo(item) ==
    IF item.origin = "cli" THEN mapToDefault[item.dest]
    ELSE (IF item.nvals >= 2 THEN item.v2 ELSE mapToDefault[item.dest])
         + (IF item.dest = "PB" THEN 8192 ELSE 0)

ItemNum(item) ==
    IF item.origin = "ini" /\ item.dest \in {"PB", "AT"} THEN 0 ELSE item.n2

\* The set operation one item leads to.
ApplyItem(maps, item) ==
    IF item.sel = "AT" THEN setAtMap(maps, item.dest, ItemNum(item), ItemFrom(item), ItemTo(item))
    ELSE IF item.sel = "PB" THEN setPbMap(maps, item.dest, ItemNum(item), ItemFrom(item), ItemTo(item))
    ELSE setCcMap(maps, item.dest, item.n1, ItemNum(item), ItemFrom(item), ItemTo(item))

(***************************************************************************)
(* main's loop body for one input byte (the for loop at "for(int i=0;        *)
(* i<count; i++)").  Step(b) gives the decoder's next values, the buffer    *)
(* passed to midiSend (<<>> when the byte leads to no call; a byte leads to *)
(* at most one) and a description of what was dispatched.                   *)
(***************************************************************************)
ReadStates == {"PASSTHRU", "GOT_CC", "PROCESS_CC_PARM", "PROCESS_CC_CC",
               "PROCESS_CC_PB", "PROCESS_CC_AT", "GOT_AT", "GOT_PB", "PROCESS_PB"}

\* What a midiSend call was for: kind is "none" (no call), "passthru", "cchead" (the status and
\* number written in GOT_CC), "ccval" (the value written in PROCESS_CC_CC),
\* "fwd" (an unmapped aftertouch or pitch bend), or the function called:
\* "parm", "cc", "pb", "at".  src is the source kind, map the entry used, val
\* the source value, max the source maximum, scaled the value the code
\* computed, rsOut the output running status before the call.
Event(kind, src, map, val, max, scaled) ==
    [kind |-> kind, src |-> src, map |-> map, val |-> val, max |-> max,
     scaled |-> scaled, rsOut |-> runningStatusOut, chan |-> channel]

NoEvent ==
    [kind |-> "none", src |-> "-", map |-> ZeroMap, val |-> 0, max |-> 0,
     scaled |-> 0, rsOut |-> 0, chan |-> 0]

\* Faulty variant: a case for program change, 0xC0, with a state of its own
\* that the switch on readState does not handle.
StateOfStatusProgramChange(status) ==
    LET hi == (status \div 16) * 16
    IN  IF hi = \hB0 THEN "GOT_CC"
        ELSE IF hi = \hC0 THEN "GOT_PC"
        ELSE IF hi = \hD0 THEN "GOT_AT"
        ELSE IF hi = \hE0 THEN "GOT_PB"
        ELSE "PASSTHRU"

\* Faulty variant: case 0xD0 without its break, falling into case 0xE0.
StateOfStatusFallsThrough(status) ==
    LET hi == (status \div 16) * 16
    IN  IF hi = \hB0 THEN "GOT_CC"
        ELSE IF hi \in {\hD0, \hE0} THEN "GOT_PB"
        ELSE "PASSTHRU"

\* The switch on the status byte's high nibble.
StateOfStatus(status) ==
    LET hi == (status \div 16) * 16
    IN  IF hi = \hB0 THEN "GOT_CC"
        ELSE IF hi = \hD0 THEN "GOT_AT"
        ELSE IF hi = \hE0 THEN "GOT_PB"
        ELSE "PASSTHRU"

Result(rs, num, lsb, buf, ev) ==
    [readState |-> rs, ccNum |-> num, pbLSB |-> lsb,
     runningStatusIn |-> runningStatusIn, channel |-> channel,
     buf |-> buf, ev |-> ev]

\* Faulty variant: a passed-through status byte left out when it is the running
\* status of the output.
StepStatusSuppressed(b) ==
    LET rs == StateOfStatus(b)
    IN  [readState |-> rs, ccNum |-> ccNum, pbLSB |-> pbLSB,
         runningStatusIn |-> b, channel |-> b % 16,
         buf |-> IF rs = "PASSTHRU" THEN StatusIfNew(b, runningStatusOut) ELSE <<>>,
         ev  |-> IF rs = "PASSTHRU"
                 THEN [Event("passthru", "-", ZeroMap, b, 0, b) EXCEPT !.chan = b % 16]
                 ELSE NoEvent]

\* Faulty variant: a status byte of the kind already being received leaves
\* the half-received message waiting for its last byte.
StepStatusKeepsPartial(b) ==
    LET rs   == StateOfStatus(b)
        kept == IF rs = "GOT_PB" /\ readState = "PROCESS_PB" THEN "PROCESS_PB"
                ELSE IF rs = "GOT_CC" /\ readState \in {"PROCESS_CC_PARM", "PROCESS_CC_CC",
                                                        "PROCESS_CC_PB", "PROCESS_CC_AT"}
                THEN readState
                ELSE rs
    IN  [readState |-> kept, ccNum |-> ccNum, pbLSB |-> pbLSB,
         runningStatusIn |-> b, channel |-> b % 16,
         buf |-> IF rs = "PASSTHRU" THEN <<b>> ELSE <<>>,
         ev  |-> IF rs = "PASSTHRU"
                 THEN [Event("passthru", "-", ZeroMap, b, 0, b) EXCEPT !.chan = b % 16]
                 ELSE NoEvent]

\* A status byte, 80..FF.
StepStatus(b) ==
    LET rs == StateOfStatus(b)
    IN  [readState |-> rs, ccNum |-> ccNum, pbLSB |-> pbLSB,
         runningStatusIn |-> b, channel |-> b % 16,
         buf |-> IF rs = "PASSTHRU" THEN <<b>> ELSE <<>>,
         ev  |-> IF rs = "PASSTHRU"
                 THEN [Event("passthru", "-", ZeroMap, b, 0, b) EXCEPT !.chan = b % 16]
                 ELSE NoEvent]

\* Faulty variant: an unmapped message is forwarded with its status byte
\* whatever the output's running status.
SendMappedResendsStatus(src, map, val, max) ==
    CASE map.type = "NONE" ->
            [buf |-> <<runningStatusIn>> \o
                     (IF src = "AT" THEN <<val>> ELSE <<Lo7(val), Hi7(val)>>),
             ev  |-> Event("fwd", src, map, val, max, val)]
      [] map.type = "CC" ->
            [buf |-> midiSendCc(runningStatusOut, channel, map, val, max),
             ev  |-> Event("cc", src, map, val, max, CcVal(map, val, max))]
      [] map.type \in {"RPN", "NRPN"} ->
            [buf |-> midiSendParm(runningStatusOut, channel, map, val, max),
             ev  |-> Event("parm", src, map, val, max, ParmVal(map, val, max))]
      [] map.type = "PB" ->
            [buf |-> midiSendPb(runningStatusOut, channel, map, val, max),
             ev  |-> Event("pb", src, map, val, max, PbVal(map, val, max))]
      [] map.type = "AT" ->
            [buf |-> midiSendAt(runningStatusOut, channel, map, val, max),
             ev  |-> Event("at", src, map, val, max, AtVal(map, val, max))]

\* The dispatch of a complete aftertouch or pitch-bend message through map.
SendMapped(src, map, val, max) ==
    CASE map.type = "NONE" ->
            [buf |-> StatusIfNew(runningStatusIn, runningStatusOut) \o
                     (IF src = "AT" THEN <<val>> ELSE <<Lo7(val), Hi7(val)>>),
             ev  |-> Event("fwd", src, map, val, max, val)]
      [] map.type = "CC" ->
            [buf |-> midiSendCc(runningStatusOut, channel, map, val, max),
             ev  |-> Event("cc", src, map, val, max, CcVal(map, val, max))]
      [] map.type \in {"RPN", "NRPN"} ->
            [buf |-> midiSendParm(runningStatusOut, channel, map, val, max),
             ev  |-> Event("parm", src, map, val, max, ParmVal(map, val, max))]
      [] map.type = "PB" ->
            [buf |-> midiSendPb(runningStatusOut, channel, map, val, max),
             ev  |-> Event("pb", src, map, val, max, PbVal(map, val, max))]
      [] map.type = "AT" ->
            [buf |-> midiSendAt(runningStatusOut, channel, map, val, max),
             ev  |-> Event("at", src, map, val, max, AtVal(map, val, max))]

\* Faulty variant: status and number held back until the value is read.
StepGotCcDeferred(b) ==
    LET map == ccMaps[b]
    IN  CASE map.type \in {"NONE", "CC"} ->
                Result("PROCESS_CC_CC", b, pbLSB, <<>>, NoEvent)
          [] map.type \in {"NRPN", "RPN"} ->
                Result("PROCESS_CC_PARM", b, pbLSB, <<>>, NoEvent)
          [] map.type = "PB" ->
                Result("PROCESS_CC_PB", b, pbLSB, <<>>, NoEvent)
          [] map.type = "AT" ->
                Result("PROCESS_CC_AT", b, pbLSB, <<>>, NoEvent)

\* Faulty variant: the aftertouch case sets the pitch-bend waiting state.
StepGotCcAtAsPb(b) ==
    LET map == ccMaps[b]
    IN  CASE map.type = "NONE" ->
                Result("PROCESS_CC_CC", b, pbLSB, <<runningStatusIn, b>>,
                       Event("cchead", "CC", map, b, 127, b))
          [] map.type \in {"NRPN", "RPN"} ->
                Result("PROCESS_CC_PARM", b, pbLSB, <<>>, NoEvent)
          [] map.type = "CC" ->
                Result("PROCESS_CC_CC", b, pbLSB, <<runningStatusIn, Lo7(map.num)>>,
                       Event("cchead", "CC", map, b, 127, Lo7(map.num)))
          [] map.type \in {"PB", "AT"} ->
                Result("PROCESS_CC_PB", b, pbLSB, <<>>, NoEvent)

\* GOT_CC: a controller number.
StepGotCc(b) ==
    LET map == ccMaps[b]
    IN  CASE map.type = "NONE" ->
                Result("PROCESS_CC_CC", b, pbLSB, <<runningStatusIn, b>>,
                       Event("cchead", "CC", map, b, 127, b))
          [] map.type \in {"NRPN", "RPN"} ->
                Result("PROCESS_CC_PARM", b, pbLSB, <<>>, NoEvent)
          [] map.type = "CC" ->
                Result("PROCESS_CC_CC", b, pbLSB, <<runningStatusIn, Lo7(map.num)>>,
                       Event("cchead", "CC", map, b, 127, Lo7(map.num)))
          [] map.type = "PB" ->
                Result("PROCESS_CC_PB", b, pbLSB, <<>>, NoEvent)
          [] map.type = "AT" ->
                Result("PROCESS_CC_AT", b, pbLSB, <<>>, NoEvent)

\* Faulty variant: after the value the decoder waits for a status byte.
StepCcCcEndsRunningStatus(b) ==
    LET map == ccMaps[ccNum]
    IN  Result("PASSTHRU", ccNum, pbLSB, <<CcCcVal(map, b) % 256>>,
               Event("ccval", "CC", map, b, 127, CcCcVal(map, b)))

\* PROCESS_CC_CC: the value of a CC that is unmapped or mapped to a CC.
StepCcCc(b) ==
    LET map == ccMaps[ccNum]
    IN  Result("GOT_CC", ccNum, pbLSB, <<CcCcVal(map, b) % 256>>,
               Event("ccval", "CC", map, b, 127, CcCcVal(map, b)))

\* A data byte, 00..7F.
StepData(b) ==
    CASE readState = "PASSTHRU" ->
            Result("PASSTHRU", ccNum, pbLSB, <<b>>,
                   Event("passthru", "-", ZeroMap, b, 0, b))
      [] readState = "GOT_CC" -> StepGotCc(b)
      [] readState = "PROCESS_CC_PARM" ->
            Result("GOT_CC", ccNum, pbLSB,
                   midiSendParm(runningStatusOut, channel, ccMaps[ccNum], b, 127),
                   Event("parm", "CC", ccMaps[ccNum], b, 127, ParmVal(ccMaps[ccNum], b, 127)))
      [] readState = "PROCESS_CC_CC" -> StepCcCc(b)
      [] readState = "PROCESS_CC_PB" ->
            Result("GOT_CC", ccNum, pbLSB,
                   midiSendPb(runningStatusOut, channel, ccMaps[ccNum], b, 127),
                   Event("pb", "CC", ccMaps[ccNum], b, 127, PbVal(ccMaps[ccNum], b, 127)))
      [] readState = "PROCESS_CC_AT" ->
            Result("GOT_CC", ccNum, pbLSB,
                   midiSendAt(runningStatusOut, channel, ccMaps[ccNum], b, 127),
                   Event("at", "CC", ccMaps[ccNum], b, 127, AtVal(ccMaps[ccNum], b, 127)))
      [] readState = "GOT_AT" ->
            LET d == SendMapped("AT", atMap, b, 127)
            IN  Result("GOT_AT", ccNum, pbLSB, d.buf, d.ev)
      [] readState = "GOT_PB" ->
            Result("PROCESS_PB", ccNum, Lo7(b), <<>>, NoEvent)
      [] readState = "PROCESS_PB" ->
            LET pbVal == pbLSB + Lo7(b) * 128
                d     == SendMapped("PB", pbMap, pbVal, 16383)
            IN  Result("GOT_PB", ccNum, pbLSB, d.buf, d.ev)

\* Faulty variant: the parameter number of an Nrpn/Rpn message is left out
\* when the message written before it addressed the same parameter.
StepOmitsRepeatedParm(b) ==
    LET s == IF b >= 128 THEN StepStatus(b) ELSE StepData(b)
    IN  IF /\ s.ev.kind = "parm" /\ lastEvent.kind = "parm"
           /\ s.ev.map.type = lastEvent.map.type /\ s.ev.map.num = lastEvent.map.num
        THEN [s EXCEPT !.buf = SubSeq(s.buf, Len(s.buf) - 7, Len(s.buf))]
        ELSE s

\* Faulty variant: a message that repeats the entry and value of the message
\* written before it is not written.
StepDropsRepeatedValue(b) ==
    LET s == IF b >= 128 THEN StepStatus(b) ELSE StepData(b)
    IN  IF /\ s.ev.kind \in {"parm", "cc", "pb", "at", "fwd"}
           /\ lastEvent.kind = s.ev.kind /\ lastEvent.src = s.ev.src
           /\ lastEvent.map = s.ev.map /\ lastEvent.val = s.ev.val
        THEN [s EXCEPT !.buf = <<>>, !.ev = NoEvent]
        ELSE s

Step(b) == IF b >= 128 THEN StepStatus(b) ELSE StepData(b)

(***************************************************************************)
(* The environment: what is on the command line or in the ini file, and    *)
(* what the MIDI peer sends.                                               *)
(***************************************************************************)
Scenario(items, script, bytes) == [args |-> items, script |-> script, dev |-> bytes]

\* The data lines of the example midiccmap.ini, in file order.
ExampleIni ==
    << Ini("NRPN", "CC", 1, 2, 0, 0, 0),
       Ini("NRPN", "CC", 2, 3, 0, 0, 0),
       Ini("NRPN", "CC", 2, 4, 0, 0, 0),
       Ini("NRPN", "CC", 3, 5, 2, 100, 500),
       Ini("RPN",  "CC", 4, 5, 0, 0, 0),
       Ini("CC",   "CC", 5, 6, 0, 0, 0),
       Ini("CC",   "CC", 7, 8, 2, -64, 191),
       Ini("CC",   "PB", 0, 10, 0, 0, 0),
       Ini("CC",   "CC", 10, 11, 0, 0, 0),
       Ini("PB",   "CC", 11, 0, 2, 0, -8192),
       Ini("PB",   "AT", 0, 0, 0, 0, 0),
       Ini("AT",   "PB", 0, 0, 0, 0, 0) >>

\* Every source (CC 1 upward, CC 2 downward, aftertouch downward, pitch bend
\* upward) mapped to one destination type; the bounds of the last two lie
\* partly outside its legal range.  In [ToPb] the bounds are the signed ones.
AllTo(dest, num, top) ==
    << Ini(dest, "CC", 1, num, 2, 100, top),
       Ini(dest, "CC", 2, num, 2, top, 100),
       Ini(dest, "AT", 0, num, 2, top, -64),
       Ini(dest, "PB", 0, num, 2, -64, top + 64) >>

Scenarios ==
    { Scenario(<<>>, <<>>, {\hB0, \hB1, \hD0, \hE0, \h90, 1, 64}),
      Scenario(<<>>, <<>>, {\h90, \h80, \hC1, \hF8, 60, 0}),
      Scenario(ExampleIni, <<>>, {\hB0, 1, 3, 4, 0, 127}),
      Scenario(ExampleIni, <<>>, {\hB0, \hB1, 5, 7, 10, 0, 127}),
      Scenario(ExampleIni, <<>>, {\hB0, \hD0, \hE0, 11, 0, 127}),
      Scenario(AllTo("NRPN", 300, 16383), <<>>, {\hB0, \hD0, \hE0, 0, 1, 2, 127}),
      Scenario(AllTo("RPN", 5, 500), <<>>, {\hB0, \hD0, \hE0, 0, 1, 2, 127}),
      Scenario(AllTo("CC", 8, 127), <<>>, {\hB0, \hD0, \hE0, 0, 1, 2, 127}),
      Scenario(<<Ini("NRPN", "CC", 1, 2, 0, 0, 0), Ini("CC", "CC", 5, 6, 2, 200, 300)>>,
               <<>>, {\hB0, 1, 0}),
      Scenario(AllTo("PB", 0, 8191), <<>>, {\hB0, \hD0, \hE0, 0, 1, 2, 127}),
      Scenario(AllTo("AT", 0, 127), <<>>, {\hB0, \hD0, \hE0, 0, 1, 2, 127}),
      \* "midiccmap 1 2": CC 1 to NRPN 2, then two CC 1 messages
      Scenario(<<Cli("NRPN", 1, 2)>>, <<\hB0, 1, 0, \hB0, 1, 127>>, {\hB0, 1, 127}),
      \* CC 5 to CC 6 at the default range, CC 7 to CC 6 on 0 .. 100
      Scenario(<<Ini("CC", "CC", 5, 6, 0, 0, 0), Ini("CC", "CC", 7, 6, 2, 0, 100)>>,
               <<\hB0, 5, 64>>, {5, 7, 1, 127}),
      \* "midiccmap -p 1 0 -a 2 0": the command line's pitch bend and aftertouch
      Scenario(<<Cli("PB", 1, 0), Cli("AT", 2, 0)>>, <<>>, {\hB0, 1, 2, 0, 127}),
      \* rejected: source controller 128, destination NRPN 16384
      Scenario(<<Cli("CC", 128, 6)>>, <<>>, {\hB0, 1, 0}),
      Scenario(<<Ini("NRPN", "CC", 1, 2, 0, 0, 0), Cli("NRPN", 1, 16384)>>, <<>>, {\hB0, 1, 0}),
      \* [ToPb] "11, -8192, 0": CC 11 to the lower half of the pitch-bend range
      Scenario(<<Ini("PB", "CC", 11, 0, 2, -8192, 0)>>, <<\hB1, 11, 0, 11, 127>>, {11, 0, 127}),
      \* [ToCc] "7, 8, -64, 191" around the source values where clipping sets in
      Scenario(<<Ini("CC", "CC", 7, 8, 2, -64, 191)>>, <<\hB0, 7>>, {7, 31, 32, 95, 96}),
      \* CC 1 to NRPN 2 with the timing clock F8 among the bytes
      Scenario(<<Cli("NRPN", 1, 2)>>, <<>>, {\hB0, \hF8, 1, 64}) }

(***************************************************************************)
(* The option loop alone, for the set operations: every sequence of at     *)
(* most MaxItems pairs and data lines drawn from Items.                    *)
(***************************************************************************)
Items ==
    { Cli("NRPN", 1, 2), Cli("NRPN", 1, 16383), Cli("NRPN", 1, 16384),
      Cli("RPN", 127, 0), Cli("RPN", 2, 16384),
      Cli("CC", 5, 127), Cli("CC", 5, 128), Cli("CC", 128, 6),
      Cli("PB", 1, 0), Cli("PB", 1, 5), Cli("AT", 2, 0), Cli("AT", 2, 1),
      Ini("NRPN", "CC", 2, 3, 0, 0, 0), Ini("NRPN", "CC", 2, 4, 0, 0, 0),
      Ini("NRPN", "CC", 3, 5, 2, 100, 500), Ini("NRPN", "AT", 0, 5, 2, 16383, -64),
      Ini("NRPN", "CC", 1, 7, 2, 16384, 20000), Ini("RPN", "PB", 0, 4, 1, -1, 0),
      Ini("CC", "CC", 5, 6, 0, 0, 0), Ini("CC", "CC", 5, 6, 2, 200, 300),
      Ini("CC", "CC", 5, 6, 2, -5, -1), Ini("CC", "CC", 7, 8, 2, -64, 191),
      Ini("CC", "CC", 7, 8, 2, 128, 127), Ini("CC", "CC", 7, 8, 2, 127, 0),
      Ini("CC", "CC", 5, 128, 2, 200, 300), Ini("CC", "CC", 128, 6, 0, 0, 0),
      Ini("CC", "PB", 0, 10, 0, 0, 0), Ini("CC", "AT", 0, 10, 2, 300, 128),
      Ini("PB", "CC", 11, 0, 2, 0, -8192), Ini("PB", "AT", 0, 0, 0, 0, 0),
      Ini("PB", "CC", 1, 0, 2, -100, -50), Ini("PB", "CC", 1, 0, 2, 8192, 9000),
      Ini("PB", "CC", 1, 0, 2, -8193, -8200), Ini("PB", "CC", 1, 9, 2, -8192, 8191),
      Ini("AT", "PB", 0, 0, 0, 0, 0), Ini("AT", "CC", 1, 3, 2, -1, 128),
      Ini("AT", "CC", 1, 0, 2, 128, 129) }

(***************************************************************************)
(* The program.                                                            *)
(***************************************************************************)
\* main before its option loop: init_maps done, nothing read or written.
Fresh ==
    /\ pc = "args"
    /\ applied = <<>>
    /\ nfree = 0
    /\ msgs = <<>>
    /\ ccMaps = init_maps.cc
    /\ atMap = init_maps.at
    /\ pbMap = init_maps.pb
    /\ keepRunning = TRUE
    /\ pending = 0
    /\ runningStatusIn = 0
    /\ runningStatusOut = 0
    /\ channel = -1           \* not initialised; never read before a status byte
    /\ ccNum = -1             \* not initialised; never read before GOT_CC sets it
    /\ pbLSB = -1             \* not initialised; never read before GOT_PB sets it
    /\ readState = "PASSTHRU" \* set before the loop, "readState = PASSTHRU"
    /\ exitStatus = -1
    /\ inp = <<>>
    /\ out = <<>>
    /\ lastWrite = <<>>
    /\ lastEvent = NoEvent

Init ==
    /\ \E s \in Scenarios : args = s.args /\ feed = s.script /\ dev = s.dev
    /\ Fresh

decoderVars == <<runningStatusIn, runningStatusOut, channel, ccNum, pbLSB, readState>>
tableVars   == <<ccMaps, atMap, pbMap>>
ioVars      == <<inp, out, lastWrite, lastEvent>>
peerVars    == <<dev, feed, nfree>>

\* One command-line pair or ini data line: the set operation succeeds.
ApplyArg ==
    /\ pc = "args" /\ args # <<>>
    /\ LET r == ApplyItem(Maps(ccMaps, atMap, pbMap), Head(args))
       IN  /\ r.err = 0
           /\ ccMaps' = r.maps.cc /\ atMap' = r.maps.at /\ pbMap' = r.maps.pb
           /\ msgs' = msgs \o r.msgs
    /\ args' = Tail(args)
    /\ applied' = Append(applied, Head(args))
    /\ UNCHANGED <<pc, peerVars, keepRunning, pending, decoderVars, exitStatus, ioVars>>

\* Faulty variant: a failed set operation is reported and the item skipped.
RejectArgSkips ==
    /\ pc = "args" /\ args # <<>>
    /\ LET r == ApplyItem(Maps(ccMaps, atMap, pbMap), Head(args))
       IN  /\ r.err # 0
           /\ msgs' = msgs \o r.msgs
    /\ args' = Tail(args)
    /\ UNCHANGED <<pc, applied, peerVars, tableVars, keepRunning, pending, decoderVars,
                   exitStatus, ioVars>>

\* The set operation fails: "invalid mapping, aborting", exit(-1).
RejectArg ==
    /\ pc = "args" /\ args # <<>>
    /\ LET r == ApplyItem(Maps(ccMaps, atMap, pbMap), Head(args))
       IN  /\ r.err # 0
           /\ ccMaps' = r.maps.cc /\ atMap' = r.maps.at /\ pbMap' = r.maps.pb
           /\ msgs' = msgs \o r.msgs \o <<"aborting">>
    /\ pc' = "exit" /\ exitStatus' = 255
    /\ UNCHANGED <<args, applied, peerVars, keepRunning, pending, decoderVars, ioVars>>

\* All options processed.
ArgsDone ==
    /\ pc = "args" /\ args = <<>>
    /\ pc' = "open"
    /\ UNCHANGED <<args, applied, peerVars, msgs, tableVars, keepRunning, pending, decoderVars,
                   exitStatus, ioVars>>

\* snd_rawmidi_open succeeds; signal(SIGINT, intHandler) is installed.
Open ==
    /\ pc = "open"
    /\ pc' = "while"
    /\ UNCHANGED <<args, applied, peerVars, msgs, tableVars, keepRunning, pending, decoderVars,
                   exitStatus, ioVars>>

\* snd_rawmidi_open fails: exit(1).
OpenFails ==
    /\ pc = "open"
    /\ pc' = "exit" /\ exitStatus' = 1
    /\ msgs' = Append(msgs, "Problem opening MIDI input")
    /\ UNCHANGED <<args, applied, peerVars, tableVars, keepRunning, pending, decoderVars, ioVars>>

\* intHandler, at any point once it is installed.
Sigint ==
    /\ pc \in {"while", "read", "for"}
    /\ keepRunning
    /\ keepRunning' = FALSE
    /\ UNCHANGED <<pc, args, applied, peerVars, msgs, tableVars, pending, decoderVars,
                   exitStatus, ioVars>>

\* while (keepRunning): into the loop body, or past the loop to "return 0".
While ==
    /\ pc = "while"
    /\ IF keepRunning
       THEN pc' = "read" /\ UNCHANGED exitStatus
       ELSE pc' = "exit" /\ exitStatus' = 0
    /\ UNCHANGED <<args, applied, peerVars, msgs, tableVars, keepRunning, pending, decoderVars, ioVars>>

\* Faulty variant: the polling loop does not test keepRunning.
ReadAgainPollsOn ==
    /\ pc = "read"
    /\ UNCHANGED <<pc, exitStatus>>
    /\ UNCHANGED <<args, applied, peerVars, msgs, tableVars, keepRunning, pending, decoderVars, ioVars>>

\* snd_rawmidi_read returns -EAGAIN: poll again while keepRunning, else break.
ReadAgain ==
    /\ pc = "read"
    /\ IF keepRunning
       THEN UNCHANGED <<pc, exitStatus>>
       ELSE pc' = "exit" /\ exitStatus' = 0
    /\ UNCHANGED <<args, applied, peerVars, msgs, tableVars, keepRunning, pending, decoderVars, ioVars>>

\* snd_rawmidi_read returns another error (or 0): the error is reported
\* if (keepRunning), then break and "return 0".
ReadFails ==
    /\ pc = "read"
    /\ pc' = "exit" /\ exitStatus' = 0
    /\ msgs' = IF keepRunning THEN Append(msgs, "Problem reading MIDI input") ELSE msgs
    /\ UNCHANGED <<args, applied, peerVars, tableVars, keepRunning, pending, decoderVars, ioVars>>

\* snd_rawmidi_read returns n bytes.
ReadChunk ==
    /\ pc = "read"
    /\ \E n \in 1 .. MaxChunk :
          /\ n <= Len(feed) + (MaxInput - nfree)
          /\ pending' = n
    /\ pc' = "for"
    /\ UNCHANGED <<args, applied, peerVars, msgs, tableVars, keepRunning, decoderVars, exitStatus, ioVars>>

\* The byte at inBuffer[i]: the next byte of the script, or any byte of dev.
NextBytes == IF feed # <<>> THEN {Head(feed)} ELSE dev

Consume ==
    /\ feed' = IF feed # <<>> THEN Tail(feed) ELSE feed
    /\ nfree' = IF feed # <<>> THEN nfree ELSE nfree + 1
    /\ UNCHANGED dev

\* Faulty variant: the entry of a controller is cleared once its number
\* has been looked up.
ProcessByteClearsEntry ==
    /\ pc = "for" /\ pending > 0
    /\ \E b \in NextBytes :
          LET s == Step(b)
          IN  /\ readState' = s.readState
              /\ ccNum' = s.ccNum
              /\ pbLSB' = s.pbLSB
              /\ runningStatusIn' = s.runningStatusIn
              /\ channel' = s.channel
              /\ runningStatusOut' = StatusAfter(s.buf, runningStatusOut)
              /\ inp' = Append(inp, b)
              /\ out' = out \o s.buf
              /\ lastWrite' = IF s.buf # <<>> THEN s.buf ELSE lastWrite
              /\ lastEvent' = IF s.buf # <<>> THEN s.ev ELSE lastEvent
              /\ ccMaps' = IF readState = "GOT_CC" /\ b < 128
                           THEN [ccMaps EXCEPT ![b] = init_maps.cc[b]]
                           ELSE ccMaps
    /\ Consume
    /\ pending' = pending - 1
    /\ pc' = IF pending = 1 THEN "while" ELSE "for"
    /\ UNCHANGED <<args, applied, msgs, atMap, pbMap, keepRunning, exitStatus>>

\* Faulty variant: one running status kept for input and output.
ProcessByteSharedStatus ==
    /\ pc = "for" /\ pending > 0
    /\ \E b \in NextBytes :
          LET s == Step(b)
          IN  /\ readState' = s.readState
              /\ ccNum' = s.ccNum
              /\ pbLSB' = s.pbLSB
              /\ runningStatusIn' = StatusAfter(s.buf, s.runningStatusIn)
              /\ channel' = s.channel
              /\ runningStatusOut' = StatusAfter(s.buf, s.runningStatusIn)
              /\ inp' = Append(inp, b)
              /\ out' = out \o s.buf
              /\ lastWrite' = IF s.buf # <<>> THEN s.buf ELSE lastWrite
              /\ lastEvent' = IF s.buf # <<>> THEN s.ev ELSE lastEvent
    /\ Consume
    /\ pending' = pending - 1
    /\ pc' = IF pending = 1 THEN "while" ELSE "for"
    /\ UNCHANGED <<args, applied, msgs, tableVars, keepRunning, exitStatus>>

\* One iteration of the for loop; the write (if any) succeeds.
ProcessByte ==
    /\ pc = "for" /\ pending > 0
    /\ \E b \in NextBytes :
          LET s == Step(b)
          IN  /\ readState' = s.readState
              /\ ccNum' = s.ccNum
              /\ pbLSB' = s.pbLSB
              /\ runningStatusIn' = s.runningStatusIn
              /\ channel' = s.channel
              /\ runningStatusOut' = StatusAfter(s.buf, runningStatusOut)
              /\ inp' = Append(inp, b)
              /\ out' = out \o s.buf
              /\ lastWrite' = IF s.buf # <<>> THEN s.buf ELSE lastWrite
              /\ lastEvent' = IF s.buf # <<>> THEN s.ev ELSE lastEvent
    /\ Consume
    /\ pending' = pending - 1
    /\ pc' = IF pending = 1 THEN "while" ELSE "for"
    /\ UNCHANGED <<args, applied, msgs, tableVars, keepRunning, exitStatus>>

\* One iteration of the for loop; snd_rawmidi_write fails in midiSend: exit(-1).
WriteFails ==
    /\ pc = "for" /\ pending > 0
    /\ \E b \in NextBytes :
          /\ Step(b).buf # <<>>
          /\ inp' = Append(inp, b)
    /\ Consume
    /\ pc' = "exit" /\ exitStatus' = 255
    /\ msgs' = Append(msgs, "Problem writing MIDI Output")
    /\ UNCHANGED <<args, applied, tableVars, keepRunning, pending, decoderVars,
                   out, lastWrite, lastEvent>>

Next ==
    \/ ApplyArg \/ RejectArg \/ ArgsDone
    \/ Open \/ OpenFails
    \/ Sigint \/ While
    \/ ReadAgain \/ ReadFails \/ ReadChunk
    \/ ProcessByte \/ WriteFails

Spec == Init /\ [][Next]_vars

\* The option loop alone, over every configuration of at most MaxItems items.
InitConfig ==
    /\ args \in UNION { [1 .. n -> Items] : n \in 0 .. MaxItems }
    /\ feed = <<>> /\ dev = {}
    /\ Fresh

NextConfig == ApplyArg \/ RejectArg \/ ArgsDone

SpecConfig == InitConfig /\ [][NextConfig]_vars

(***************************************************************************)
(* Vocabulary of the properties.                                           *)
(***************************************************************************)
IsPrefix(a, b) == Len(a) <= Len(b) /\ SubSeq(b, 1, Len(a)) = a

\* No midiSend call has failed (a failed write ends the process at once, the
\* byte being read but not written).
WritesOk == exitStatus # 255

\* A buffer without its leading status byte, if it has one.
Data(buf) == IF buf # <<>> /\ buf[1] >= 128 THEN Tail(buf) ELSE buf

\* The write belongs to a remapped message.
IsRemap(ev) ==
    \/ ev.kind \in {"parm", "cc", "pb", "at"}
    \/ ev.kind \in {"cchead", "ccval"} /\ ev.map.type = "CC"

\* The write carries the value of a remapped message.
IsValueEvent(ev) ==
    \/ ev.kind \in {"parm", "cc", "pb", "at"}
    \/ ev.kind = "ccval" /\ ev.map.type = "CC"

\* The status byte of the destination message of a remapped event.
DestStatus(ev) ==
    CASE ev.map.type \in {"NRPN", "RPN", "CC"} -> \hB0 + ev.chan
      [] ev.map.type = "PB" -> \hE0 + ev.chan
      [] ev.map.type = "AT" -> \hD0 + ev.chan

\* The value a receiver reads from the bytes of a value event.
EncodedValue(ev, buf) ==
    LET d == Data(buf)
    IN  CASE ev.kind = "parm"  -> d[6] * 128 + d[8]
          [] ev.kind = "cc"    -> d[2]
          [] ev.kind = "ccval" -> d[1]
          [] ev.kind = "pb"    -> d[1] + d[2] * 128
          [] ev.kind = "at"    -> d[1]

\* The specification's scale and clip.
Scale(value, sourceMax, fromBound, toBound) ==
    fromBound + TruncDiv(value * (toBound - fromBound), sourceMax)

Clip(result, destType) ==
    IF result < 0 THEN 0
    ELSE IF result > mapToMax[destType] THEN mapToMax[destType]
    ELSE result

Expected(ev) == Scale(ev.val, ev.max, ev.map.valFrom, ev.map.valTo)

(***************************************************************************)
(* C1.  An input stream made only of CC messages with unmapped controller  *)
(* numbers, with or without running status, is written to the output byte  *)
(* for byte: no status byte is added.                                      *)
(***************************************************************************)
\* Where a sequence of bytes stands as a stream of unmapped CC messages:
\* "start" (empty), "num" (after a status byte), "val" (after a controller
\* number), "end" (after a value), or "bad" (not such a stream).
RECURSIVE CcPhase(_, _, _)
CcPhase(seq, i, ph) ==
    IF i > Len(seq) \/ ph = "bad" THEN ph
    ELSE LET b == seq[i]
         IN  CcPhase(seq, i + 1,
                 IF b >= 128
                 THEN (IF ph \in {"start", "end"} /\ StateOfStatus(b) = "GOT_CC"
                       THEN "num" ELSE "bad")
                 ELSE (IF ph = "val" THEN "end"
                       ELSE IF ph \in {"num", "end"} /\ ccMaps[b].type = "NONE"
                       THEN "val" ELSE "bad"))

\* C1: while the input is such a stream the output never holds a byte the
\* input does not hold at the same place, and after each complete message the
\* output equals the input.
C1_UnmappedCcIdentity ==
    LET ph == CcPhase(inp, 1, "start")
    IN  (ph # "bad" /\ WritesOk) =>
            /\ IsPrefix(out, inp)
            /\ (ph \in {"start", "end"} => out = inp)

(***************************************************************************)
(* C2.  Of two consecutive remapped messages with the same destination     *)
(* status byte, the second is written without a status byte.               *)
(***************************************************************************)
\* C2: a write for a remapped message that follows, with nothing written in
\* between, a write for a remapped message of the same destination status
\* does not begin with a status byte.
C2_RunningStatusSuppressed ==
    [][ ( /\ out' # out
          /\ IsRemap(lastEvent) /\ IsRemap(lastEvent')
          /\ DestStatus(lastEvent) = DestStatus(lastEvent') )
        => lastWrite'[1] < 128 ]_vars

(***************************************************************************)
(* C3.  The value encoded on the output is clip(valFrom + trunc(v *        *)
(* (valTo - valFrom) / sourceMax)) for every source kind, destination type *)
(* and accepted entry, downward ranges and negative bounds included.       *)
(***************************************************************************)
\* C3: the value read from the bytes of every remapped message is the
\* specification's scale followed by clip.
C3_ScaledValue ==
    IsValueEvent(lastEvent) =>
        EncodedValue(lastEvent, lastWrite) = Clip(Expected(lastEvent), lastEvent.map.type)

(***************************************************************************)
(* C4.  Clipping is applied to the full scaled result: a result below 0 is *)
(* emitted as 0, a result above the destination maximum as that maximum.   *)
(***************************************************************************)
\* C4: whenever the specification's scaled result is out of the destination's
\* range, the value read from the bytes written is the nearer end of the range.
C4_ClipAfterScale ==
    IsValueEvent(lastEvent) =>
        /\ Expected(lastEvent) < 0 => EncodedValue(lastEvent, lastWrite) = 0
        /\ Expected(lastEvent) > mapToMax[lastEvent.map.type]
              => EncodedValue(lastEvent, lastWrite) = mapToMax[lastEvent.map.type]

(***************************************************************************)
(* C5.  The bytes written for a source event mapped to an Nrpn or Rpn      *)
(* destination end with 0x65 0x7F 0x64 0x7F, whether or not the status     *)
(* byte was suppressed, and the terminator has no status byte of its own.  *)
(***************************************************************************)
RpnNull == << \h65, \h7F, \h64, \h7F >>

\* C5: the buffer written for every Nrpn/Rpn event, and so the output after
\* it, ends with the RPN null terminator, and the byte just before the
\* terminator is a data byte.
C5_ParmTerminator ==
    lastEvent.kind = "parm" =>
        LET n == Len(lastWrite)
        IN  /\ n >= 5
            /\ SubSeq(lastWrite, n - 3, n) = RpnNull
            /\ lastWrite[n - 4] < 128
            /\ SubSeq(out, Len(out) - 3, Len(out)) = RpnNull

\* An Nrpn/Rpn event written without a status byte, after earlier output.
C5_Witness ==
    /\ lastEvent.kind = "parm"
    /\ lastWrite[1] < 128
    /\ Len(out) > Len(lastWrite)

(***************************************************************************)
(* C6.  For a source event mapped to Nrpn (Rpn) number n with scaled value *)
(* s on channel c the bytes after the optional status byte 0xB0+c are      *)
(* 0x63 (0x65), n>>7, 0x62 (0x64), n&0x7F, 0x06, s>>7, 0x26, s&0x7F,       *)
(* 0x65, 0x7F, 0x64, 0x7F.                                                 *)
(***************************************************************************)
ParmLayout(isRpn, n, s) ==
    << IF isRpn THEN \h65 ELSE \h63, n \div 128,
       IF isRpn THEN \h64 ELSE \h62, n % 128,
       \h06, s \div 128, \h26, s % 128,
       \h65, \h7F, \h64, \h7F >>

\* C6: the buffer written for every Nrpn/Rpn event is the twelve bytes of the
\* layout, for the entry's number and the scaled value the code computed,
\* alone or after the status byte 0xB0 + channel.
C6_ParmLayout ==
    lastEvent.kind = "parm" =>
        LET d == ParmLayout(lastEvent.map.type = "RPN", lastEvent.map.num, lastEvent.scaled)
        IN  lastWrite = d \/ lastWrite = << \hB0 + lastEvent.chan >> \o d

\* An Nrpn event whose number and value both need their high seven bits.
C6_Witness ==
    /\ lastEvent.kind = "parm"
    /\ lastEvent.map.type = "NRPN"
    /\ lastEvent.map.num > 127
    /\ lastEvent.scaled > 127
    /\ lastEvent.scaled % 128 # lastEvent.scaled \div 128

(***************************************************************************)
(* C7.  Every value encoded for a remapped event lies in the legal range   *)
(* of its destination type, and every byte the encoder writes that is not  *)
(* a status byte is at most 0x7F.                                          *)
(***************************************************************************)
\* C7: in every buffer written for a remapped message only the first byte can
\* have bit 7 set, and then it is the destination's status byte; the value
\* read from the bytes, and the value the code computed, lie in the range of
\* the destination type.
C7_ValuesInRange ==
    /\ IsRemap(lastEvent) =>
          /\ \A i \in 2 .. Len(lastWrite) : lastWrite[i] \in 0 .. 127
          /\ lastWrite[1] \in 0 .. 127 \/ lastWrite[1] = DestStatus(lastEvent)
    /\ IsValueEvent(lastEvent) =>
          /\ EncodedValue(lastEvent, lastWrite) \in 0 .. mapToMax[lastEvent.map.type]
          /\ lastEvent.scaled \in 0 .. mapToMax[lastEvent.map.type]

\* A remapped value whose scaled result was above the range and was clipped.
C7_Witness ==
    /\ IsValueEvent(lastEvent)
    /\ Expected(lastEvent) > mapToMax[lastEvent.map.type]
    /\ EncodedValue(lastEvent, lastWrite) = mapToMax[lastEvent.map.type]

(***************************************************************************)
(* C8.  The emitted value is a monotonic function of the source value:     *)
(* non-decreasing when valTo >= valFrom, non-increasing when valTo <       *)
(* valFrom.                                                                *)
(***************************************************************************)
\* C8: of two value events written one after the other from the same source
\* through the same entry, the one with the larger source value has the
\* larger (upward range) or the smaller (downward range) encoded value, or
\* the same.
C8_Monotonic ==
    [][ ( /\ out' # out
          /\ IsValueEvent(lastEvent) /\ IsValueEvent(lastEvent')
          /\ lastEvent.src = lastEvent'.src /\ lastEvent.map = lastEvent'.map
          /\ lastEvent.val <= lastEvent'.val )
        => IF lastEvent.map.valTo >= lastEvent.map.valFrom
           THEN EncodedValue(lastEvent, lastWrite) <= EncodedValue(lastEvent', lastWrite')
           ELSE EncodedValue(lastEvent, lastWrite) >= EncodedValue(lastEvent', lastWrite') ]_vars

(***************************************************************************)
(* C9.  Every byte of a message whose status high nibble is not 0xB0, 0xD0 *)
(* or 0xE0 is written unchanged as soon as it is read, nothing being       *)
(* inserted or removed; an input made only of such messages is written     *)
(* to the output as it is.                                                 *)
(***************************************************************************)
\* The input holds no CC, aftertouch or pitch-bend status byte.
OnlyPassThrough(seq) ==
    \A i \in 1 .. Len(seq) : seq[i] >= 128 => StateOfStatus(seq[i]) = "PASSTHRU"

\* C9: a step that reads a byte and leaves the decoder in PASSTHRU appends
\* exactly that byte to the output; and while the input holds only
\* pass-through messages the output equals the input.
C9_PassThrough ==
    /\ [][ (inp' # inp /\ readState' = "PASSTHRU" /\ WritesOk')
           => out' = Append(out, inp'[Len(inp')]) ]_vars
    /\ []((OnlyPassThrough(inp) /\ WritesOk) => out = inp)

\* A pass-through status byte repeated under its own running status, both
\* copies written.
C9_Witness ==
    /\ OnlyPassThrough(inp)
    /\ Len(inp) >= 3
    /\ inp[1] >= 128 /\ inp[2] < 128 /\ inp[3] = inp[1]
    /\ out = inp

(***************************************************************************)
(* C10.  Every message begun on the output is written completely within a  *)
(* single dispatch, so that between two input bytes (where the process can *)
(* stop on the shutdown signal) the output does not end in an incomplete   *)
(* message.                                                                *)
(***************************************************************************)
\* A MIDI receiver's framing of a byte stream: the number of data bytes the
\* last message begun still lacks.  Real-time bytes F8..FF are transparent,
\* F0..F7 cancel the running status.
DataLen(status) ==
    IF (status \div 16) * 16 \in {\hC0, \hD0} THEN 1 ELSE 2

RECURSIVE Missing(_, _, _, _)
Missing(seq, i, status, need) ==
    IF i > Len(seq) THEN need
    ELSE LET b == seq[i]
         IN  IF b >= \hF8 THEN Missing(seq, i + 1, status, need)
             ELSE IF b >= \hF0 THEN Missing(seq, i + 1, 0, 0)
             ELSE IF b >= 128 THEN Missing(seq, i + 1, b, DataLen(b))
             ELSE IF status = 0 THEN Missing(seq, i + 1, status, need)
             ELSE IF need = 0 THEN Missing(seq, i + 1, status, DataLen(status) - 1)
             ELSE Missing(seq, i + 1, status, need - 1)

\* The input began with a status byte and holds only CC, aftertouch and
\* pitch-bend status bytes: nothing was forwarded by PASSTHRU.
OnlyDispatched(seq) ==
    /\ seq # <<>> => seq[1] >= 128
    /\ \A i \in 1 .. Len(seq) : seq[i] >= 128 => StateOfStatus(seq[i]) # "PASSTHRU"

\* C10 as stated: between two input bytes the output never ends in an
\* incomplete message (here for input that the dispatcher alone writes).
C10_NeverIncomplete ==
    (pc \in {"while", "read", "for"} /\ OnlyDispatched(inp)) => Missing(out, 1, 0, 0) = 0

\* C10 as amended: every buffer written by midiSendParm, midiSendCc,
\* midiSendPb, midiSendAt or for an unmapped aftertouch or pitch bend holds
\* all the data bytes of its message; a CC that is unmapped or mapped to a CC
\* is written in two calls, so that whenever the decoder waits in
\* PROCESS_CC_CC the latest write is a status byte with a controller number
\* and the output ends in a message lacking one data byte.
C10_WholeWritesExceptCcHead ==
    /\ lastEvent.kind = "parm" => Len(Data(lastWrite)) = 12
    /\ lastEvent.kind \in {"cc", "pb"} => Len(Data(lastWrite)) = 2
    /\ lastEvent.kind = "at" => Len(Data(lastWrite)) = 1
    /\ lastEvent.kind = "fwd" =>
          Len(Data(lastWrite)) = IF lastEvent.src = "AT" THEN 1 ELSE 2
    /\ lastEvent.kind = "cchead" => Len(Data(lastWrite)) = 1
    /\ lastEvent.kind = "ccval" => Len(lastWrite) = 1
    /\ readState = "PROCESS_CC_CC" =>
          /\ lastEvent.kind = "cchead"
          /\ Missing(out, 1, 0, 0) = 1

\* The process has ended on the interrupt signal while the output ends in a
\* status byte and a controller number without a value.
C10_Witness ==
    /\ pc = "exit" /\ exitStatus = 0 /\ ~keepRunning
    /\ readState = "PROCESS_CC_CC"
    /\ Missing(out, 1, 0, 0) = 1

(***************************************************************************)
(* Vocabulary of the properties about configuration.                       *)
(***************************************************************************)
\* The legal range of a destination type is 0 .. LegalMax.
LegalMax(destType) == IF destType \in {"CC", "AT"} THEN 127 ELSE 16383

\* The k-th bound written on a data line, as the table holds it: a [ToPb]
\* line gives signed pitch-bend values, held offset by 8192.
Internal(item, k) ==
    (IF k = 1 THEN item.v1 ELSE item.v2) + (IF item.dest = "PB" THEN 8192 ELSE 0)

\* The k-th bound is written on the line and lies below / above the range.
Below(item, k) == item.origin = "ini" /\ item.nvals >= k /\ Internal(item, k) < 0
Above(item, k) ==
    item.origin = "ini" /\ item.nvals >= k /\ Internal(item, k) > LegalMax(item.dest)

BothOut(item) == (Below(item, 1) /\ Below(item, 2)) \/ (Above(item, 1) /\ Above(item, 2))
SomeOut(item) == Below(item, 1) \/ Below(item, 2) \/ Above(item, 1) \/ Above(item, 2)

\* The source and destination numbers of an item are acceptable.
SourceOk(item) == item.sel \in {"AT", "PB"} \/ item.n1 < 128
DestNumOk(item) ==
    CASE item.dest = "CC" -> item.n2 <= 127
      [] item.dest \in {"NRPN", "RPN"} -> item.n2 <= 16383
      [] OTHER -> item.origin = "ini" \/ item.n2 = 0

\* A step of the option loop that hands an item to a set operation.
SetStep == pc = "args" /\ args # <<>>

\* What errormessage() printed during the step.
NewMsgs == SubSeq(msgs', Len(msgs) + 1, Len(msgs'))
Said(m) == \E i \in 1 .. Len(NewMsgs) : NewMsgs[i] = m

\* The process has ended on a rejected item (the item is still Head(args)).
Rejected == pc = "exit" /\ args # <<>>

(***************************************************************************)
(* C11.  A set operation is rejected with the "unusable output range"      *)
(* error exactly when both bounds lie below the destination's minimum or   *)
(* both above its maximum; for a [ToPb] line the test is on the bounds     *)
(* offset by 8192.                                                         *)
(***************************************************************************)
\* C11: in every set step, both bounds out on the same side means rejection,
\* with the "unusable range" error when the item's numbers are acceptable;
\* and that error is printed for no other item.
C11_UnusableRange ==
    [][ SetStep =>
          LET item == Head(args)
          IN  /\ BothOut(item) => pc' = "exit" /\ exitStatus' = 255
              /\ (BothOut(item) /\ SourceOk(item) /\ DestNumOk(item))
                    => Said("unusable range")
              /\ Said("unusable range") => BothOut(item) /\ pc' = "exit" ]_vars

\* A [ToPb] line rejected although the bounds as written (8192, 9000) lie
\* inside 0 .. 16383.
C11_Witness ==
    /\ Rejected
    /\ Head(args) = Ini("PB", "CC", 1, 0, 2, 8192, 9000)
    /\ \E i \in 1 .. Len(msgs) : msgs[i] = "unusable range"

(***************************************************************************)
(* C12.  A set operation with at least one bound outside the legal range,  *)
(* but not both on the same side, succeeds, stores the bounds unchanged    *)
(* and warns that the output will be clipped; with both bounds inside the  *)
(* range it succeeds without that warning.                                 *)
(***************************************************************************)
\* The slot an item writes, after the step.
SlotAfter(item) ==
    IF item.sel = "AT" THEN atMap'
    ELSE IF item.sel = "PB" THEN pbMap'
    ELSE ccMaps'[item.n1]

\* C12: in every set step for an item with acceptable numbers whose bounds
\* are not both out on one side, the item is accepted, the slot holds the
\* bounds written on the line (offset by 8192 in [ToPb]), and the clipping
\* warning is printed exactly when a bound lies outside the legal range.
C12_ClippedAccepted ==
    [][ ( /\ SetStep
          /\ SourceOk(Head(args)) /\ DestNumOk(Head(args))
          /\ ~BothOut(Head(args)) )
        => LET item == Head(args)
           IN  /\ pc' = "args" /\ args' = Tail(args) /\ exitStatus' = -1
               /\ item.nvals >= 1 => SlotAfter(item).valFrom = Internal(item, 1)
               /\ item.nvals >= 2 => SlotAfter(item).valTo = Internal(item, 2)
               /\ Said("clipped") <=> SomeOut(item) ]_vars

\* The example file's line "7, 8, -64, 191": one bound below, one above.
C12_Witness ==
    /\ pc = "open"
    /\ applied = << Ini("CC", "CC", 7, 8, 2, -64, 191) >>
    /\ ccMaps[7] = MidiMap("CC", 8, -64, 191)
    /\ msgs = << "clipped" >>

(***************************************************************************)
(* C13.  setCc rejects a source controller number of 128 or more; every    *)
(* set operation rejects a destination number above 127 for Cc, above      *)
(* 16383 for Nrpn/Rpn, and any non-zero one for None, PitchBend or         *)
(* Aftertouch; a destination number inside these ranges never causes a     *)
(* rejection.                                                              *)
(***************************************************************************)
\* C13: in every set step the "invalid source" error is printed exactly for
\* a controller number of 128 or more and the "invalid destination" error
\* only for a number out of the destination's range, each with a rejection;
\* an item with a good source and a bad destination number is rejected with
\* the latter; an item with acceptable numbers is rejected only for its
\* range.  For type None the only destination number accepted is 0.
C13_NumbersChecked ==
    /\ [][ SetStep =>
             LET item == Head(args)
             IN  /\ Said("invalid source") <=> ~SourceOk(item)
                 /\ Said("invalid destination") => ~DestNumOk(item)
                 /\ (SourceOk(item) /\ ~DestNumOk(item)) => Said("invalid destination")
                 /\ (~SourceOk(item) \/ ~DestNumOk(item))
                       => pc' = "exit" /\ exitStatus' = 255
                 /\ (SourceOk(item) /\ DestNumOk(item) /\ pc' = "exit")
                       => BothOut(item) ]_vars
    /\ [](\A n \in {0, 1, 127, 16383} :
            (setMidiMap(ZeroMap, "NONE", n, 0, 127).err = 0) <=> (n = 0))

\* The command line's "-p 1 5": a pitch-bend destination with a number.
C13_Witness ==
    /\ Rejected
    /\ Head(args) = Cli("PB", 1, 5)
    /\ msgs # <<>> /\ msgs[1] = "invalid destination"

(***************************************************************************)
(* C14.  When a source slot is configured more than once the entry in      *)
(* force is the last one written; each write to a slot whose type is not   *)
(* None emits a warning, and overriding is never by itself a reason for    *)
(* failure.                                                                *)
(***************************************************************************)
\* The source slot an item writes, and the one in the tables now.
SlotOf(item) == IF item.sel \in {"AT", "PB"} THEN <<item.sel>> ELSE <<"CC", item.n1>>

AllSlots == {<<"AT">>, <<"PB">>} \cup {<<"CC", n>> : n \in 0 .. map_size - 1}

SlotNow(slot) ==
    IF slot[1] = "AT" THEN atMap ELSE IF slot[1] = "PB" THEN pbMap ELSE ccMaps[slot[2]]

\* The entry an item asks for.
EntryOf(item) == MidiMap(item.dest, ItemNum(item), ItemFrom(item), ItemTo(item))

\* The positions of the accepted items that write a slot.
WritesTo(slot) == {i \in 1 .. Len(applied) : SlotOf(applied[i]) = slot}

Latest(S) == CHOOSE i \in S : \A j \in S : j <= i

\* The number of accepted items that wrote a slot written before.
Overrides ==
    Cardinality({i \in 1 .. Len(applied) :
                    \E j \in 1 .. i - 1 : SlotOf(applied[j]) = SlotOf(applied[i])})

CountOf(m, seq) == Cardinality({i \in 1 .. Len(seq) : seq[i] = m})

\* C14: every slot holds the entry of the latest accepted item that writes
\* it, and is of type None if there is none; while nothing is rejected there
\* are as many override warnings as writes to slots written before; a step
\* that accepts an item warns exactly when the slot's type was not None;
\* and an item rejected is one a fresh table rejects too.
C14_LastWins ==
    /\ [](\A slot \in AllSlots :
            IF WritesTo(slot) = {} THEN SlotNow(slot).type = "NONE"
            ELSE SlotNow(slot) = EntryOf(applied[Latest(WritesTo(slot))]))
    /\ [](~Rejected => CountOf("override", msgs) = Overrides)
    /\ [][ SetStep =>
             LET item == Head(args)
             IN  /\ pc' = "args" =>
                       (Said("override") <=> SlotNow(SlotOf(item)).type # "NONE")
                 /\ pc' = "exit" =>
                       ApplyItem(init_maps, item).err # 0 ]_vars

\* The example file's duplicate: CC 2 to NRPN 3, then CC 2 to NRPN 4.
C14_Witness ==
    /\ pc = "open"
    /\ applied = << Ini("NRPN", "CC", 2, 3, 0, 0, 0), Ini("NRPN", "CC", 2, 4, 0, 0, 0) >>
    /\ ccMaps[2] = MidiMap("NRPN", 4, 0, 16383)
    /\ msgs = << "override" >>

(***************************************************************************)
(* C15.  If a configuration tuple is rejected (source selector out of      *)
(* range, destination number out of range, unusable output range) the      *)
(* process exits with a failure status before the transport is opened: no  *)
(* input byte is read and no output byte written.                          *)
(***************************************************************************)
\* C15: a set step for an item with a bad number or an unusable range ends
\* the process with a status other than 0; in the state it ends in nothing
\* was read or written and nothing happens any more; and the transport is
\* opened only when every item was accepted.
C15_RejectAborts ==
    /\ [][ ( /\ SetStep
              /\ \/ ~SourceOk(Head(args)) \/ ~DestNumOk(Head(args))
                 \/ BothOut(Head(args)) )
            => pc' = "exit" /\ exitStatus' \notin {-1, 0} ]_vars
    /\ [][ ~Rejected ]_vars
    /\ [](Rejected => exitStatus \notin {-1, 0} /\ inp = <<>> /\ out = <<>>)
    /\ []((pc \in {"open", "while", "read", "for"} \/ inp # <<>> \/ out # <<>>)
            => args = <<>> /\ ~\E i \in 1 .. Len(msgs) : msgs[i] = "aborting")

\* A line rejected after another was accepted.
C15_Witness ==
    /\ Rejected
    /\ applied # <<>>
    /\ exitStatus = 255
    /\ msgs[Len(msgs)] = "aborting"

(***************************************************************************)
(* C16.  Once stream processing has started no sequence of input bytes     *)
(* changes any entry of the mapping table: every slot is the same after    *)
(* each processed byte as before it.                                       *)
(***************************************************************************)
\* C16: every step taken once the option loop is over, and every step that
\* examines an input byte, leaves the 128 CC slots, the aftertouch slot and
\* the pitch-bend slot as they were.
C16_TableReadOnly ==
    [][ (pc # "args" \/ inp' # inp)
        => (ccMaps' = ccMaps /\ atMap' = atMap /\ pbMap' = pbMap) ]_vars

\* Remapped messages were written through a table holding mappings for a
\* controller, aftertouch and pitch bend, still in place.
C16_Witness ==
    /\ Len(inp) >= 4
    /\ IsValueEvent(lastEvent)
    /\ ccMaps[1].type # "NONE" /\ atMap.type # "NONE" /\ pbMap.type # "NONE"
    /\ \A slot \in AllSlots :
          WritesTo(slot) # {} => SlotNow(slot) = EntryOf(applied[Latest(WritesTo(slot))])

(***************************************************************************)
(* C17.  A mapping given without an explicit range (a data line without    *)
(* bounds, or any command-line pair) scales onto the full legal range of   *)
(* its destination type, PitchBend included: source value 0 is emitted as  *)
(* the minimum, the maximum source value as the maximum; and the command   *)
(* line and the ini file give the same default entry.  (They do not: for a *)
(* pitch-bend destination main passes mapFromDefault .. mapToDefault, that *)
(* is 0 .. 8191, and readIniFile the same offset by 8192.)                 *)
(***************************************************************************)
\* The item has no range of its own.
DefaultRange(item) == item.origin = "cli" \/ item.nvals = 0

\* The latest write used the entry of an item without a range.
UsedDefault ==
    /\ IsValueEvent(lastEvent)
    /\ \E slot \in AllSlots :
          /\ slot[1] = lastEvent.src
          /\ WritesTo(slot) # {}
          /\ DefaultRange(applied[Latest(WritesTo(slot))])
          /\ SlotNow(slot) = lastEvent.map

\* C17: a value written through an entry that was given without a range is
\* 0 for source value 0 and the destination's maximum for the largest source
\* value.
C17_DefaultFullRange ==
    UsedDefault =>
        /\ lastEvent.val = 0 => EncodedValue(lastEvent, lastWrite) = 0
        /\ lastEvent.val = lastEvent.max
              => EncodedValue(lastEvent, lastWrite) = LegalMax(lastEvent.map.type)

(***************************************************************************)
(* C18.  When the process ends because of the interrupt signal it returns  *)
(* exit status 0; when it ends because of an unrecoverable transport       *)
(* failure (failure to open, a read error other than would-block, a write  *)
(* error) it returns a non-zero exit status.                               *)
(***************************************************************************)
\* The process reported a failure of snd_rawmidi_open, _read or _write.
TransportFailed ==
    \E i \in 1 .. Len(msgs) :
        msgs[i] \in {"Problem opening MIDI input", "Problem reading MIDI input",
                     "Problem writing MIDI Output"}

\* C18: a process that has ended after its option loop has a status other
\* than 0 if it reported a transport failure, and otherwise was interrupted
\* and has status 0.
C18_ExitStatus ==
    (pc = "exit" /\ ~Rejected) =>
        IF TransportFailed THEN exitStatus # 0
        ELSE ~keepRunning /\ exitStatus = 0

(***************************************************************************)
(* C19.  Scenario A: from a fresh process with CC 1 mapped to NRPN 2 at    *)
(* the default range, input B0 01 00 followed by B0 01 7F produces two     *)
(* NRPN messages carrying 0 and 16383, each the 12 bytes 63 00 62 02 06    *)
(* v>>7 26 v&7F 65 7F 64 7F, the status byte B0 written before the first   *)
(* and not repeated before the second.                                     *)
(***************************************************************************)
ScriptA == << \hB0, 1, 0, \hB0, 1, 127 >>

NrpnA(v) ==
    << \h63, \h00, \h62, \h02, \h06, v \div 128, \h26, v % 128,
       \h65, \h7F, \h64, \h7F >>

\* The output after the first n bytes of the script.
OutputA(n) ==
    IF n < 3 THEN <<>>
    ELSE IF n < 6 THEN << \hB0 >> \o NrpnA(0)
    ELSE << \hB0 >> \o NrpnA(0) \o NrpnA(16383)

\* C19: with "1 2" as the only mapping (CC 1 to NRPN 2, entry 0 .. 16383),
\* after each prefix of the script the output is the status byte and the
\* NRPN sequences of the messages completed so far, and nothing else.
C19_ScenarioA ==
    (applied = << Cli("NRPN", 1, 2) >> /\ args = <<>> /\ WritesOk) =>
        /\ ccMaps[1] = MidiMap("NRPN", 2, 0, 16383)
        /\ \A n \in 0 .. Len(ScriptA) :
              inp = SubSeq(ScriptA, 1, n) => out = OutputA(n)

\* The whole script was read and both sequences written, 25 bytes in all.
C19_Witness ==
    /\ applied = << Cli("NRPN", 1, 2) >>
    /\ inp = ScriptA
    /\ Len(out) = 25 /\ out = OutputA(6)
    /\ lastWrite = NrpnA(16383)

(***************************************************************************)
(* C20.  Scenario B: a CC mapped to another CC at the default range        *)
(* 0 .. 127 has its value emitted unchanged for every value 0 .. 127, so   *)
(* B0 05 40 with CC 5 mapped to CC 6 yields B0 06 40; with the range       *)
(* 0 .. 100 the division truncates, so source value 1 is emitted as 0.     *)
(***************************************************************************)
ItemsB == << Ini("CC", "CC", 5, 6, 0, 0, 0), Ini("CC", "CC", 7, 6, 2, 0, 100) >>

\* C20: with CC 5 mapped to CC 6 on the default range and CC 7 on 0 .. 100,
\* the value written for CC 5 is the value read, the entry of CC 5 gives
\* every value 0 .. 127 unchanged, B0 05 40 is written as B0 06 40, and the
\* value written for CC 7 at source value 1 is 0 (and 100 at 127).
C20_ScenarioB ==
    (applied = ItemsB /\ args = <<>> /\ WritesOk) =>
        /\ ccMaps[5] = MidiMap("CC", 6, 0, 127)
        /\ \A v \in 0 .. 127 : CcCcVal(ccMaps[5], v) = v
        /\ (lastEvent.kind = "ccval" /\ lastEvent.map = ccMaps[5])
              => lastWrite = << lastEvent.val >>
        /\ inp = << \hB0, 5, 64 >> => out = << \hB0, 6, 64 >>
        /\ (lastEvent.kind = "ccval" /\ lastEvent.map = ccMaps[7])
              => lastWrite = << IF lastEvent.val = 1 THEN 0
                                ELSE TruncDiv(lastEvent.val * 100, 127) >>

\* B0 05 40 was written as B0 06 40, then CC 7 at value 1 as 0.
C20_Witness ==
    /\ applied = ItemsB
    /\ inp = << \hB0, 5, 64, 7, 1 >>
    /\ out = << \hB0, 6, 64, \hB0, 6, 0 >>

(***************************************************************************)
(* C21.  Scenario C: with CC 11 mapped to pitch bend with internal bounds  *)
(* 0 .. 8192 (signed -8192 .. 0), a CC 11 message with value 0 yields the  *)
(* pitch-bend data bytes 00 00 and one with value 127 yields 00 40, each   *)
(* under status 0xE0 + channel.                                            *)
(***************************************************************************)
ItemsC == << Ini("PB", "CC", 11, 0, 2, -8192, 0) >>

\* C21: with the [ToPb] line "11, -8192, 0" alone the entry of CC 11 is
\* 0 .. 8192; every pitch bend written for CC 11 at value 0 has data bytes
\* 00 00 and at value 127 data bytes 00 40, its status byte if any is
\* E0 + channel and that is the output's running status afterwards; and
\* B1 0B 00 0B 7F is written as E1 00 00 00 40.
C21_ScenarioC ==
    (applied = ItemsC /\ args = <<>> /\ WritesOk) =>
        /\ ccMaps[11] = MidiMap("PB", 0, 0, 8192)
        /\ (lastEvent.kind = "pb" /\ lastEvent.src = "CC" /\ out # <<>>) =>
              /\ lastEvent.val = 0 => Data(lastWrite) = << 0, 0 >>
              /\ lastEvent.val = 127 => Data(lastWrite) = << 0, \h40 >>
              /\ lastWrite[1] >= 128 => lastWrite[1] = \hE0 + lastEvent.chan
              /\ runningStatusOut = \hE0 + lastEvent.chan
        /\ inp = << \hB1, 11, 0 >> => out = << \hE1, 0, 0 >>
        /\ inp = << \hB1, 11, 0, 11, 127 >> => out = << \hE1, 0, 0, 0, \h40 >>

\* Both messages were read and written, the second under running status.
C21_Witness ==
    /\ applied = ItemsC
    /\ inp = << \hB1, 11, 0, 11, 127 >>
    /\ out = << \hE1, 0, 0, 0, \h40 >>
    /\ lastEvent.val = 127 /\ lastEvent.scaled = 8192

(***************************************************************************)
(* C22.  With CC 7 mapped to CC 8 with range -64 .. 191 (the ini example)  *)
(* the output value is clipped exactly when the source value is outside    *)
(* 32 .. 96: inside, the scaled result lies in 0 .. 127 and is emitted as  *)
(* computed; outside, it is out of range and clamped.                      *)
(***************************************************************************)
ItemsD == << Ini("CC", "CC", 7, 8, 2, -64, 191) >>

\* With the line "7, 8, -64, 191" alone: for every source value from 32 to
\* top the scaled result lies in 0 .. 127 and is the value PROCESS_CC_CC
\* computes, for every other one it lies outside and the nearer end of the
\* range is computed; and the value bytes written for CC 7 agree.
ClipsOutside(top) ==
    (applied = ItemsD /\ args = <<>> /\ WritesOk) =>
        /\ ccMaps[7] = MidiMap("CC", 8, -64, 191)
        /\ \A v \in 0 .. 127 :
              LET r == Scale(v, 127, -64, 191)
              IN  IF v \in 32 .. top
                  THEN r \in 0 .. 127 /\ CcCcVal(ccMaps[7], v) = r
                  ELSE r \notin 0 .. 127 /\ CcCcVal(ccMaps[7], v) = Clip(r, "CC")
        /\ (lastEvent.kind = "ccval" /\ lastEvent.map = ccMaps[7]) =>
              IF lastEvent.val \in 32 .. top
              THEN Expected(lastEvent) \in 0 .. 127
                   /\ lastWrite = << Expected(lastEvent) >>
              ELSE Expected(lastEvent) \notin 0 .. 127
                   /\ lastWrite = << Clip(Expected(lastEvent), "CC") >>

StatusPart(status, ev) == IF status # ev.rsOut THEN << status >> ELSE <<>>

\* C23: the buffer written by midiSendPb is the optional status E0 + channel,
\* then the low and the high seven bits of the value the code computed; the
\* one written by midiSendAt is the optional status D0 + channel, then the
\* low seven bits of the value.
C23_PbAtLayout ==
    /\ lastEvent.kind = "pb" =>
          lastWrite = StatusPart(\hE0 + lastEvent.chan, lastEvent)
                        \o << lastEvent.scaled % 128, (lastEvent.scaled \div 128) % 128 >>
    /\ lastEvent.kind = "at" =>
          lastWrite = StatusPart(\hD0 + lastEvent.chan, lastEvent)
                        \o << lastEvent.scaled % 128 >>

\* A pitch bend written under running status whose two data bytes differ.
C23_Witness ==
    /\ lastEvent.kind = "pb"
    /\ Len(lastWrite) = 2
    /\ lastEvent.rsOut = \hE0 + lastEvent.chan
    /\ lastEvent.scaled > 127
    /\ lastWrite[1] # lastWrite[2]

\* An aftertouch written with its status byte after other output.
C23_WitnessAt ==
    /\ lastEvent.kind = "at"
    /\ Len(lastWrite) = 2 /\ lastWrite[1] = \hD0 + lastEvent.chan
    /\ Len(out) > 2

(***************************************************************************)
(* C24.  Pitch-bend bounds written in the ini file are signed              *)
(* (-8192 .. 8191) and stored offset by 8192: a [ToPb] line with bounds    *)
(* a, b yields the entry (a+8192, b+8192), so the example line             *)
(* "11, 0, -8192" makes CC 11 value 0 emit the midpoint 8192 and value 127 *)
(* emit 0.                                                                 *)
(***************************************************************************)
\* C24: every slot last written by a [ToPb] line with two bounds a, b holds
\* a + 8192 and b + 8192; with the example file the entry of CC 11 is
\* 8192 .. 0; and a pitch bend written through that entry carries 8192 for
\* source value 0 and 0 for source value 127.
C24_SignedPbBounds ==
    /\ \A slot \in {SlotOf(applied[i]) : i \in 1 .. Len(applied)} :
             LET item == applied[Latest(WritesTo(slot))]
             IN  (item.origin = "ini" /\ item.dest = "PB" /\ item.nvals = 2) =>
                     /\ SlotNow(slot).type = "PB"
                     /\ SlotNow(slot).valFrom = item.v1 + 8192
                     /\ SlotNow(slot).valTo = item.v2 + 8192
    /\ (applied = ExampleIni /\ args = <<>>) => ccMaps[11] = MidiMap("PB", 0, 8192, 0)
    /\ ( /\ lastEvent.kind = "pb" /\ lastEvent.src = "CC"
          /\ lastEvent.map = MidiMap("PB", 0, 8192, 0) ) =>
             /\ lastEvent.val = 0 =>
                   EncodedValue(lastEvent, lastWrite) = 8192
                   /\ Data(lastWrite) = << \h00, \h40 >>
             /\ lastEvent.val = 127 =>
                   EncodedValue(lastEvent, lastWrite) = 0
                   /\ Data(lastWrite) = << \h00, \h00 >>

\* With the example file, CC 11 at 127 was written as the pitch bend 0.
C24_Witness ==
    /\ applied = ExampleIni
    /\ inp = << \hB0, 11, 127 >>
    /\ out = << \hE0, 0, 0 >>
    /\ lastEvent.map = MidiMap("PB", 0, 8192, 0)

(***************************************************************************)
(* C25.  The output stream is always correctly framed: decoding the bytes  *)
(* written with a standard MIDI running-status decoder yields exactly the  *)
(* messages the dispatcher intended, also when a status byte interrupts a  *)
(* partially received message; no data byte of one message is read as      *)
(* belonging to another message or to a different status.                  *)
(***************************************************************************)
\* A MIDI receiver's running status after a byte stream (0 for none): the
\* last status byte below F8, cancelled by F0 .. F7.
RECURSIVE RxStatus(_, _, _)
RxStatus(seq, i, status) ==
    IF i > Len(seq) THEN status
    ELSE LET b == seq[i]
         IN  IF b >= \hF8 THEN RxStatus(seq, i + 1, status)
             ELSE IF b >= \hF0 THEN RxStatus(seq, i + 1, 0)
             ELSE IF b >= 128 THEN RxStatus(seq, i + 1, b)
             ELSE RxStatus(seq, i + 1, status)

\* The status byte the message of a dispatch is meant to be read under.
IntendedStatus(ev) ==
    IF ev.kind = "fwd"
    THEN (IF ev.src = "AT" THEN \hD0 ELSE \hE0) + ev.chan
    ELSE DestStatus(ev)

\* C25: a forwarded or remapped message written without a status byte finds
\* the receiver between two messages with the intended status as its
\* running status; the value byte of a CC written in PROCESS_CC_CC finds
\* the receiver one data byte short of a CC message on the channel.
C25_OutputFramed ==
    [][ out' # out =>
          /\ ( /\ lastEvent'.kind \in {"parm", "cc", "pb", "at", "fwd"}
                /\ lastWrite'[1] < 128 )
              => /\ RxStatus(out, 1, 0) = IntendedStatus(lastEvent')
                 /\ Missing(out, 1, 0, 0) = 0
          /\ lastEvent'.kind = "ccval"
              => /\ RxStatus(out, 1, 0) = \hB0 + lastEvent'.chan
                 /\ Missing(out, 1, 0, 0) = 1 ]_vars

(***************************************************************************)
(* C26.  For any well-formed MIDI input, including input in which system   *)
(* real-time bytes (F8 .. FF) are interleaved between or inside CC         *)
(* messages sent under running status, every CC message whose controller   *)
(* number is mapped is output in its remapped form: no data byte of a      *)
(* mapped CC message is forwarded verbatim by the pass-through path.       *)
(***************************************************************************)
\* The latest data byte of a stream.
RECURSIVE LastData(_)
LastData(seq) ==
    IF seq = <<>> THEN 0
    ELSE IF seq[Len(seq)] < 128 THEN seq[Len(seq)]
    ELSE LastData(SubSeq(seq, 1, Len(seq) - 1))

\* The stream begins with a status byte and no status byte below F8 comes
\* before the message in progress is complete.
WellFormed(seq) ==
    /\ seq # <<>> /\ seq[1] >= 128
    /\ \A i \in 1 .. Len(seq) :
          seq[i] \in 128 .. \hF7 => Missing(SubSeq(seq, 1, i - 1), 1, 0, 0) = 0

\* By MIDI's rules (real-time bytes leave the running status alone) the
\* data byte b that follows the stream belongs to a CC message whose
\* controller number is mapped.
MappedCcData(seq, b) ==
    /\ RxStatus(seq, 1, 0) \div 16 = 11
    /\ IF Missing(seq, 1, 0, 0) = 1
       THEN ccMaps[LastData(seq)].type # "NONE"
       ELSE ccMaps[b].type # "NONE"

\* C26: a step that examines a data byte of a mapped CC message of a
\* well-formed input does not write it through the PASSTHRU path.
C26_MappedNeverPassedThrough ==
    [][ ( /\ inp' # inp /\ WritesOk'
          /\ inp'[Len(inp')] < 128
          /\ WellFormed(inp)
          /\ MappedCcData(inp, inp'[Len(inp')]) )
        => readState' # "PASSTHRU" /\ lastEvent'.kind # "passthru" ]_vars

(***************************************************************************)
(* C27.  When a status byte arrives while a message is partially received  *)
(* (CC number received with the value pending, or pitch-bend LSB received  *)
(* with the MSB pending), the partial bytes are dropped and decoding       *)
(* starts fresh: the source events decoded from all input after the        *)
(* interrupting status byte are the same as if the dropped bytes had never *)
(* been received (no CC number or LSB is carried over).                    *)
(***************************************************************************)
\* The position of the latest status byte of a stream that has one.
LastStatusAt(seq) ==
    CHOOSE i \in 1 .. Len(seq) :
        seq[i] >= 128 /\ \A j \in i + 1 .. Len(seq) : seq[j] < 128

\* The stream from its latest status byte on.
SinceStatus(seq) == SubSeq(seq, LastStatusAt(seq), Len(seq))

NoMsg == [src |-> "-", num |-> 0, val |-> 0]

\* A decoder that has seen nothing before the status byte.
FreshStart(status) ==
    [state |-> IF status \div 16 = 11 THEN "GOT_CC"
               ELSE IF status \div 16 = 13 THEN "GOT_AT"
               ELSE IF status \div 16 = 14 THEN "GOT_PB"
               ELSE "PASSTHRU",
     num |-> -1, lsb |-> -1, msg |-> NoMsg]

WaitingFor(type) ==
    CASE type \in {"NRPN", "RPN"} -> "PROCESS_CC_PARM"
      [] type \in {"NONE", "CC"}  -> "PROCESS_CC_CC"
      [] type = "PB"              -> "PROCESS_CC_PB"
      [] type = "AT"              -> "PROCESS_CC_AT"

\* The fresh decoder after the data byte b; msg is the source message that b
\* completed, NoMsg if it completed none.
FreshData(d, b) ==
    CASE d.state = "PASSTHRU" -> [d EXCEPT !.msg = NoMsg]
      [] d.state = "GOT_CC" ->
            [d EXCEPT !.state = WaitingFor(ccMaps[b].type), !.num = b, !.msg = NoMsg]
      [] d.state \in {"PROCESS_CC_PARM", "PROCESS_CC_CC", "PROCESS_CC_PB", "PROCESS_CC_AT"} ->
            [d EXCEPT !.state = "GOT_CC",
                      !.msg = [src |-> "CC", num |-> d.num, val |-> b]]
      [] d.state = "GOT_AT" -> [d EXCEPT !.msg = [src |-> "AT", num |-> 0, val |-> b]]
      [] d.state = "GOT_PB" -> [d EXCEPT !.state = "PROCESS_PB", !.lsb = b, !.msg = NoMsg]
      [] d.state = "PROCESS_PB" ->
            [d EXCEPT !.state = "GOT_PB",
                      !.msg = [src |-> "PB", num |-> 0, val |-> d.lsb + 128 * b]]

\* The fresh decoder after seq[i], seq[i+1], ...
RECURSIVE FreshDecode(_, _, _)
FreshDecode(seq, i, d) ==
    IF i > Len(seq) THEN d ELSE FreshDecode(seq, i + 1, FreshData(d, seq[i]))

\* What a decoder that starts at the latest status byte makes of the stream.
FromLastStatus(seq) ==
    LET s == SinceStatus(seq) IN FreshDecode(s, 2, FreshStart(s[1]))

\* C27: after every byte the decoder is where a decoder started at the
\* latest status byte would be, holds the CC number or LSB that decoder
\* would hold, and a message it dispatches is the one that decoder would
\* have decoded.
C27_FreshAfterStatus ==
    [][ ( /\ inp' # inp /\ WritesOk'
          /\ \E i \in 1 .. Len(inp') : inp'[i] >= 128 )
        => LET d == FromLastStatus(inp')
           IN  /\ readState' = d.state
               /\ d.state \in {"PROCESS_CC_PARM", "PROCESS_CC_CC", "PROCESS_CC_PB",
                                "PROCESS_CC_AT"} => ccNum' = d.num
               /\ d.state = "PROCESS_PB" => pbLSB' = d.lsb
               /\ d.msg # NoMsg =>
                     /\ out' # out
                     /\ lastEvent'.src = d.msg.src
                     /\ lastEvent'.val = d.msg.val
                     /\ lastEvent'.map = ( CASE d.msg.src = "CC" -> ccMaps[d.msg.num]
                                             [] d.msg.src = "AT" -> atMap
                                             [] d.msg.src = "PB" -> pbMap ) ]_vars

\* A status byte came after a pitch-bend LSB or a CC number, and the message
\* that followed it has been decoded.
C27_Witness ==
    /\ WritesOk /\ Len(inp) = 4
    /\ inp[1] \in {\hB0, \hE0} /\ inp[2] \in 1 .. 127
    /\ inp[3] = \hD0 /\ inp[4] = 64
    /\ readState = "GOT_AT"
    /\ lastEvent.src = "AT" /\ lastEvent.val = 64

(***************************************************************************)
(* C28.  On any input byte with bit 7 set, whatever the previous decoder   *)
(* state, lastInputStatus (runningStatusIn) becomes that byte, the channel *)
(* becomes its low nibble, and the decoder state becomes GOT_CC if the     *)
(* high nibble is 0xB0, GOT_AT if 0xD0, GOT_PB if 0xE0, and PASSTHRU       *)
(* otherwise.                                                              *)
(***************************************************************************)
C28_StatusDispatch ==
    [][ ( /\ inp' # inp /\ WritesOk'
          /\ inp'[Len(inp')] >= 128 )
        => LET b == inp'[Len(inp')]
           IN  /\ runningStatusIn' = b
               /\ channel' = b % 16
               /\ (b \div 16 = 11) => readState' = "GOT_CC"
               /\ (b \div 16 = 13) => readState' = "GOT_AT"
               /\ (b \div 16 = 14) => readState' = "GOT_PB"
               /\ (b \div 16 \notin {11, 13, 14}) => readState' = "PASSTHRU" ]_vars

\* The aftertouch status of channel 0 arrived while the value of a CC of
\* channel 1 was awaited.
C28_Witness ==
    /\ WritesOk
    /\ inp = << \hB1, 1, \hD0 >>
    /\ readState = "GOT_AT" /\ runningStatusIn = \hD0 /\ channel = 0

\* A status byte that is none of the three arrived in a waiting state.
C28_WitnessOther ==
    /\ WritesOk
    /\ Len(inp) = 3 /\ inp[1] = \hB0 /\ inp[2] < 128 /\ inp[3] = \h90
    /\ readState = "PASSTHRU" /\ runningStatusIn = \h90

(***************************************************************************)
(* C29.  After the data byte that completes a message the decoder returns  *)
(* to the entry state of the same message kind, so that further messages   *)
(* of that kind sent under running status are decoded without a new status *)
(* byte: PROCESS_CC_PARM, PROCESS_CC_CC, PROCESS_CC_PB and PROCESS_CC_AT go *)
(* to GOT_CC; GOT_AT stays in GOT_AT; GOT_PB goes to PROCESS_PB on the LSB *)
(* and PROCESS_PB goes back to GOT_PB on the MSB, the 14-bit value being   *)
(* LSB | (MSB<<7).                                                         *)
(***************************************************************************)
\* C29: the state after a data byte, by the state before it; the byte before
\* the MSB of a pitch bend is its LSB.
C29_BackToEntryState ==
    [][ ( /\ inp' # inp /\ WritesOk'
          /\ inp'[Len(inp')] < 128 )
        => LET b == inp'[Len(inp')]
           IN  /\ readState \in {"PROCESS_CC_PARM", "PROCESS_CC_CC", "PROCESS_CC_PB",
                                  "PROCESS_CC_AT"}
                     => /\ readState' = "GOT_CC"
                        /\ runningStatusIn' \div 16 = 11
                        /\ out' # out /\ lastEvent'.src = "CC" /\ lastEvent'.val = b
               /\ readState = "GOT_AT"
                     => /\ readState' = "GOT_AT"
                        /\ runningStatusIn' \div 16 = 13
                        /\ out' # out /\ lastEvent'.src = "AT" /\ lastEvent'.val = b
               /\ readState = "GOT_PB"
                     => /\ readState' = "PROCESS_PB" /\ pbLSB' = b
                        /\ out' = out
               /\ readState = "PROCESS_PB"
                     => /\ readState' = "GOT_PB"
                        /\ runningStatusIn' \div 16 = 14
                        /\ out' # out /\ lastEvent'.src = "PB"
                        /\ lastEvent'.val = inp[Len(inp)] + 128 * b ]_vars

\* Two CC 11 messages under one status byte, both decoded and remapped.
C29_Witness ==
    /\ WritesOk
    /\ inp = << \hB1, 11, 0, 11, 127 >>
    /\ out = << \hE1, \h00, \h00, \h00, \h40 >>
    /\ readState = "GOT_CC"

\* Two aftertouch messages, or a pitch bend and a half, under one status byte.
C29_WitnessAtPb ==
    /\ WritesOk /\ applied = <<>>
    /\ \/ inp = << \hD0, 1, 64 >> /\ readState = "GOT_AT" /\ out = inp
       \/ inp = << \hE0, 1, 64, 1 >> /\ readState = "PROCESS_PB"
             /\ out = << \hE0, 1, 64 >> /\ lastEvent.val = 1 + 128 * 64

(***************************************************************************)
(* C30.  In GOT_CC a data byte n moves the decoder to the waiting state    *)
(* that matches the type of CC n's entry (Nrpn/Rpn: PROCESS_CC_PARM;       *)
(* None/Cc: PROCESS_CC_CC; PitchBend: PROCESS_CC_PB; Aftertouch:           *)
(* PROCESS_CC_AT), and in every reachable state where the decoder is in    *)
(* one of these waiting states the remembered CC number is below 128 and   *)
(* its entry type matches that state.                                      *)
(***************************************************************************)
CcWaiting == {"PROCESS_CC_PARM", "PROCESS_CC_CC", "PROCESS_CC_PB", "PROCESS_CC_AT"}

C30_WaitingMatchesType ==
    /\ [][ ( /\ inp' # inp /\ WritesOk'
              /\ inp'[Len(inp')] < 128
              /\ readState = "GOT_CC" )
            => LET n == inp'[Len(inp')]
               IN  /\ ccNum' = n
                   /\ ccMaps[n].type \in {"NRPN", "RPN"} => readState' = "PROCESS_CC_PARM"
                   /\ ccMaps[n].type \in {"NONE", "CC"} => readState' = "PROCESS_CC_CC"
                   /\ ccMaps[n].type = "PB" => readState' = "PROCESS_CC_PB"
                   /\ ccMaps[n].type = "AT" => readState' = "PROCESS_CC_AT" ]_vars
    /\ [] ( readState \in CcWaiting =>
               /\ ccNum \in 0 .. 127
               /\ readState = "PROCESS_CC_PARM" <=> ccMaps[ccNum].type \in {"NRPN", "RPN"}
               /\ readState = "PROCESS_CC_CC" <=> ccMaps[ccNum].type \in {"NONE", "CC"}
               /\ readState = "PROCESS_CC_PB" <=> ccMaps[ccNum].type = "PB"
               /\ readState = "PROCESS_CC_AT" <=> ccMaps[ccNum].type = "AT" )

\* The number of a CC mapped to aftertouch has been read and its value is
\* awaited.
C30_Witness ==
    /\ WritesOk
    /\ Len(inp) = 2 /\ inp[1] = \hB0 /\ inp[2] = ccNum
    /\ ccMaps[ccNum].type = "AT"
    /\ readState = "PROCESS_CC_AT"

\* The same for an entry of another type.
C30_WitnessOthers ==
    /\ WritesOk /\ applied = ExampleIni
    /\ \/ inp = << \hB0, 1 >> /\ readState = "PROCESS_CC_PARM"
       \/ inp = << \hB0, 4 >> /\ readState = "PROCESS_CC_PARM" /\ ccMaps[4].type = "RPN"
       \/ inp = << \hB0, 5 >> /\ readState = "PROCESS_CC_CC" /\ ccMaps[5].type = "CC"
       \/ inp = << \hB0, 0 >> /\ readState = "PROCESS_CC_CC" /\ ccMaps[0].type = "NONE"
       \/ inp = << \hB0, 11 >> /\ readState = "PROCESS_CC_PB"

(***************************************************************************)
(* C31.  Messages of an unmapped aftertouch source and of an unmapped      *)
(* pitch-bend source are forwarded with their data bytes unchanged (pitch  *)
(* bend as LSB then MSB), the input status byte being written only when it *)
(* differs from lastOutputStatus (runningStatusOut); for an input made     *)
(* only of such messages the output equals the input.                      *)
(***************************************************************************)
\* Where a sequence of bytes stands as a stream of complete aftertouch and
\* pitch-bend messages of unmapped sources: "start" (empty), "at" (after an
\* aftertouch status byte), "pb" (after a pitch-bend status byte), "lsb"
\* (after a pitch-bend LSB), "end" (after a complete message), or "bad".
\* kind is the kind of the message in progress or just completed.
RECURSIVE FwdPhase(_, _, _, _)
FwdPhase(seq, i, ph, kind) ==
    IF i > Len(seq) \/ ph = "bad" THEN ph
    ELSE LET b == seq[i]
         IN  IF b >= 128
             THEN (IF ph \notin {"start", "end"} THEN "bad"
                   ELSE IF b \div 16 = 13 /\ atMap.type = "NONE"
                   THEN FwdPhase(seq, i + 1, "at", "AT")
                   ELSE IF b \div 16 = 14 /\ pbMap.type = "NONE"
                   THEN FwdPhase(seq, i + 1, "pb", "PB")
                   ELSE "bad")
             ELSE (IF ph = "at" THEN FwdPhase(seq, i + 1, "end", kind)
                   ELSE IF ph = "pb" THEN FwdPhase(seq, i + 1, "lsb", kind)
                   ELSE IF ph = "lsb" THEN FwdPhase(seq, i + 1, "end", kind)
                   ELSE IF ph = "end" /\ kind = "AT" THEN FwdPhase(seq, i + 1, "end", kind)
                   ELSE IF ph = "end" /\ kind = "PB" THEN FwdPhase(seq, i + 1, "lsb", kind)
                   ELSE "bad")

\* A stream without the status bytes that repeat the status byte before them.
RECURSIVE Elide(_, _, _)
Elide(seq, i, status) ==
    IF i > Len(seq) THEN <<>>
    ELSE IF seq[i] < 128 THEN <<seq[i]>> \o Elide(seq, i + 1, status)
    ELSE IF seq[i] = status THEN Elide(seq, i + 1, status)
    ELSE <<seq[i]>> \o Elide(seq, i + 1, seq[i])

\* The buffer written for a forwarded message: its data bytes, after the
\* input status byte if that is not the output's running status.
Forwarded(data) ==
    (IF runningStatusIn # runningStatusOut THEN <<runningStatusIn>> ELSE <<>>) \o data

\* The data byte that completes an unmapped aftertouch or pitch-bend message
\* has that message written as Forwarded says.
ForwardsUnmapped ==
    [][ ( /\ inp' # inp /\ WritesOk'
          /\ inp'[Len(inp')] < 128 )
        => LET b == inp'[Len(inp')]
           IN  /\ (readState = "GOT_AT" /\ atMap.type = "NONE")
                     => /\ lastWrite' = Forwarded(<<b>>)
                        /\ out' = out \o lastWrite'
               /\ (readState = "PROCESS_PB" /\ pbMap.type = "NONE")
                     => /\ lastWrite' = Forwarded(<<inp[Len(inp)], b>>)
                        /\ out' = out \o lastWrite' ]_vars

\* After an input made only of such messages the output is expected.
ForwardedStream(expected) ==
    (WritesOk /\ FwdPhase(inp, 1, "start", "-") = "end") => out = expected

\* C31 as stated: the output is the input.
C31_ForwardedIdentity == ForwardsUnmapped /\ [] ForwardedStream(inp)

\* C31 as amended: the output is the input without the status bytes that
\* repeat the running status.
C31_ForwardedElided == ForwardsUnmapped /\ [] ForwardedStream(Elide(inp, 1, 0))

\* Two aftertouch messages, each with its status byte: the second status
\* byte is not written.
C31_Witness ==
    /\ WritesOk
    /\ inp = << \hD0, 1, \hD0, 64 >>
    /\ out = << \hD0, 1, 64 >>
    /\ lastEvent.kind = "fwd"

\* A pitch bend under another running status, written with its status byte.
C31_WitnessPb ==
    /\ WritesOk
    /\ inp = << \hD0, 1, \hE0, 1 >> /\ out = << \hD0, 1 >>
    /\ readState = "PROCESS_PB"

(***************************************************************************)
(* C32.  Every remapped message is sent on the channel of the source       *)
(* message: the status written (or assumed under running-status            *)
(* suppression) for a remapped event is the destination type's high nibble *)
(* (0xB0, 0xE0 or 0xD0) plus the low nibble of the last input status byte. *)
(***************************************************************************)
\* The status byte of a destination type on the channel of the latest status
\* byte of the input.
StatusOnSourceChannel(destType, seq) ==
    ( CASE destType \in {"CC", "RPN", "NRPN"} -> \hB0
        [] destType = "PB" -> \hE0
        [] destType = "AT" -> \hD0 ) + (seq[LastStatusAt(seq)] % 16)

\* C32: a buffer written for a remapped message begins with that status
\* byte, or begins with a data byte when that status byte is the
\* output's running status, kept by the program and by a receiver.
C32_SourceChannel ==
    [][ (out' # out /\ IsRemap(lastEvent'))
        => LET st == StatusOnSourceChannel(lastEvent'.map.type, inp')
           IN  IF lastWrite'[1] >= 128
               THEN lastWrite'[1] = st
               ELSE runningStatusOut = st /\ RxStatus(out, 1, 0) = st ]_vars

\* A CC of channel 1 remapped to a pitch bend under the running status E1.
C32_Witness ==
    /\ lastEvent.kind = "pb" /\ lastEvent.src = "CC"
    /\ inp[LastStatusAt(inp)] = \hB1
    /\ lastWrite = << \h00, \h40 >>
    /\ RxStatus(out, 1, 0) = \hE1

(***************************************************************************)
(* C33.  After any sequence of input bytes, lastOutputStatus                *)
(* (runningStatusOut) equals the most recent byte with bit 7 set that was  *)
(* actually written to the output, or its initial value 0 if no such byte  *)
(* has been written; an emission that writes no status byte leaves it      *)
(* unchanged.                                                              *)
(***************************************************************************)
\* The bytes of a stream that have bit 7 set, in order.
StatusBytes(seq) == SelectSeq(seq, LAMBDA b : b >= 128)

\* C33: runningStatusOut is the last status byte of the output, 0 when the
\* output holds none; a write without a status byte does not change it.
C33_LastOutputStatus ==
    /\ [] ( LET sb == StatusBytes(out)
            IN  runningStatusOut = IF sb = <<>> THEN 0 ELSE sb[Len(sb)] )
    /\ [][ (out' # out /\ StatusBytes(lastWrite') = <<>>)
            => runningStatusOut' = runningStatusOut ]_vars

\* A status byte was written, then a buffer without one, and
\* runningStatusOut is still that status byte.
C33_Witness ==
    /\ Len(out) >= 3 /\ out[1] >= 128
    /\ \A i \in 2 .. Len(out) : out[i] < 128
    /\ Len(lastWrite) < Len(out) /\ lastWrite[1] < 128
    /\ runningStatusOut = out[1]

\* Nothing with bit 7 set has been written and runningStatusOut is 0.
C33_WitnessInitial ==
    /\ out # <<>> /\ StatusBytes(out) = <<>>
    /\ runningStatusOut = 0

(***************************************************************************)
(* C34.  lastInputStatus (runningStatusIn) and lastOutputStatus             *)
(* (runningStatusOut) are independent: lastInputStatus changes only when a *)
(* status byte is read from the input and is never changed by writing to   *)
(* the output, and lastOutputStatus changes only when a status byte is     *)
(* written; a remap whose destination status differs from the source       *)
(* status (e.g. CC to pitch bend) changes lastOutputStatus and leaves      *)
(* lastInputStatus unchanged, so following CC data bytes are still decoded *)
(* as CC.                                                                  *)
(***************************************************************************)
\* C34: runningStatusIn changes only on a step that reads a status byte, to
\* that byte; runningStatusOut changes only on a step that writes a status
\* byte, to that byte; a step that writes, for a CC, a message with a
\* status byte that is not a CC status changes runningStatusOut to it,
\* leaves runningStatusIn a CC status and the decoder in GOT_CC.
C34_IndependentStatus ==
    [][ /\ runningStatusIn' # runningStatusIn
              => /\ inp' # inp /\ inp'[Len(inp')] >= 128
                 /\ runningStatusIn' = inp'[Len(inp')]
        /\ (inp' # inp /\ inp'[Len(inp')] < 128)
              => runningStatusIn' = runningStatusIn
        /\ runningStatusOut' # runningStatusOut
              => /\ out' # out /\ lastWrite'[1] >= 128
                 /\ runningStatusOut' = lastWrite'[1]
        /\ ( /\ out' # out /\ lastEvent'.src = "CC"
              /\ lastWrite'[1] >= 128 /\ lastWrite'[1] \div 16 # 11 )
              => /\ runningStatusOut' = lastWrite'[1]
                 /\ runningStatusIn' = runningStatusIn
                 /\ runningStatusIn' \div 16 = 11
                 /\ runningStatusIn' # runningStatusOut'
                 /\ readState' = "GOT_CC" ]_vars

\* After a CC of channel 1 was written as a pitch bend, a second CC sent
\* under running status was decoded as a CC and written as a pitch bend.
C34_Witness ==
    /\ runningStatusIn = \hB1 /\ runningStatusOut = \hE1
    /\ Len(inp) = 5 /\ \A i \in 2 .. 5 : inp[i] < 128
    /\ Len(out) = 5
    /\ lastEvent.kind = "pb" /\ lastEvent.src = "CC" /\ lastEvent.val = inp[5]

(***************************************************************************)
(* C35.  The bytes written for a fully decoded source event depend only on *)
(* the mapping entry, the source value, the channel and lastOutputStatus   *)
(* (runningStatusOut): two runs that reach the same event with the same    *)
(* four values but different earlier input histories write the same bytes  *)
(* for it.                                                                 *)
(***************************************************************************)
\* The bytes of a source event of kind src (with its controller number for a
\* CC without mapping) as a function of the entry, the value, the channel
\* and the output's running status, and of nothing else.
BytesFor(kind, src, map, val, chan, rsOut) ==
    LET max == IF src = "PB" THEN 16383 ELSE 127
    IN  CASE kind = "fwd" /\ src = "AT" -> StatusIfNew(\hD0 + chan, rsOut) \o <<val>>
          [] kind = "fwd" /\ src = "PB" ->
                StatusIfNew(\hE0 + chan, rsOut) \o <<val % 128, val \div 128>>
          [] kind = "parm"  -> midiSendParm(rsOut, chan, map, val, max)
          [] kind = "cc"    -> midiSendCc(rsOut, chan, map, val, max)
          [] kind = "pb"    -> midiSendPb(rsOut, chan, map, val, max)
          [] kind = "at"    -> midiSendAt(rsOut, chan, map, val, max)
          [] kind = "ccval" -> << CcCcVal(map, val) % 256 >>

\* C35: the buffer written for every source event is BytesFor of the event's
\* entry, value, channel and the running status before the write, whatever
\* was read and written before.
C35_BytesDependOnEventOnly ==
    lastEvent.kind \in {"fwd", "parm", "cc", "pb", "at", "ccval"} =>
        lastWrite = BytesFor(lastEvent.kind, lastEvent.src, lastEvent.map, lastEvent.val,
                             lastEvent.chan, lastEvent.rsOut)

\* An aftertouch written through an Nrpn entry after the number of a mapped
\* CC that was then abandoned: the bytes are those of the aftertouch as the
\* first message of a stream.
C35_Witness ==
    /\ WritesOk
    /\ Len(inp) = 4 /\ inp[1] = \hB0 /\ inp[2] < 128 /\ inp[3] = \hD0
    /\ ccMaps[inp[2]].type \in {"NRPN", "RPN"}
    /\ lastEvent.kind = "parm" /\ lastEvent.src = "AT"
    /\ lastEvent.rsOut = 0
    /\ out = lastWrite

(***************************************************************************)
(* C36.  Each fully decoded source event produces exactly one output       *)
(* message, all of whose bytes are written before the next input byte is   *)
(* examined, and output messages appear in the same order as the input     *)
(* messages that caused them: nothing is buffered, reordered, duplicated   *)
(* or dropped.                                                             *)
(***************************************************************************)
\* The buffer w written for the event ev holds one whole message of the
\* event's kind (the twelve data bytes of an Nrpn/Rpn sequence counting as
\* one); for a CC written as a CC it holds the value, the status byte and
\* number being the buffer before written just before it at the end of o.
OneMessage(ev, w, before, beforeW, o) ==
    /\ \A i \in 2 .. Len(w) : w[i] < 128
    /\ CASE ev.kind = "parm" -> Len(Data(w)) = 12
          [] ev.kind \in {"cc", "pb"} -> Len(Data(w)) = 2
          [] ev.kind = "at" -> Len(Data(w)) = 1
          [] ev.kind = "fwd" -> Len(Data(w)) = IF ev.src = "AT" THEN 1 ELSE 2
          [] ev.kind = "ccval" ->
                /\ Len(w) = 1 /\ w[1] < 128
                /\ before.kind = "cchead" /\ Len(beforeW) = 2
                /\ Len(o) >= 2 /\ SubSeq(o, Len(o) - 1, Len(o)) = beforeW
          [] OTHER -> FALSE

\* C36: the step that reads the byte completing a source message appends
\* one message for it to the output; a step that reads any other byte
\* appends nothing, or the byte itself in PASSTHRU, or the status byte and
\* number of a CC that is written as a CC.
C36_OneMessagePerEvent ==
    [][ ( /\ inp' # inp /\ WritesOk'
          /\ \E i \in 1 .. Len(inp') : inp'[i] >= 128 )
        => LET d == FromLastStatus(inp')
           IN  /\ d.msg # NoMsg =>
                     /\ lastWrite' # <<>> /\ out' = out \o lastWrite'
                     /\ lastEvent'.src = d.msg.src /\ lastEvent'.val = d.msg.val
                     /\ OneMessage(lastEvent', lastWrite', lastEvent, lastWrite, out)
               /\ d.msg = NoMsg =>
                     \/ out' = out
                     \/ /\ d.state = "PASSTHRU"
                        /\ out' = Append(out, inp'[Len(inp')])
                     \/ /\ d.state = "PROCESS_CC_CC"
                        /\ lastEvent'.kind = "cchead" /\ Len(lastWrite') = 2
                        /\ out' = out \o lastWrite' ]_vars

\* Two aftertouch messages were read under one status byte and the output
\* holds their two remapped messages, the second written for the second.
C36_Witness ==
    /\ WritesOk
    /\ atMap = MidiMap("AT", 0, 127, -64)
    /\ inp = << \hD0, 0, 127 >>
    /\ out = << \hD0, 127, 0 >>
    /\ lastEvent.kind = "at" /\ lastEvent.val = 127
    /\ lastWrite = << 0 >>

(***************************************************************************)
(* C37.  With a mapping table built only through the validated set         *)
(* operations, the defensive fatal branches (unknown map type for a CC,    *)
(* aftertouch or pitch-bend entry; unexpected read state) are unreachable  *)
(* for every input byte sequence.                                          *)
(***************************************************************************)
\* C37: every entry's type is one the switches on map type handle, the
\* decoder's state is one the switch on readState handles, and the process
\* ends with exit(-1) only on a rejected mapping or a failed write.
C37_NoInternalError ==
    /\ \A n \in 0 .. map_size - 1 : ccMaps[n].type \in MapTypes
    /\ atMap.type \in MapTypes
    /\ pbMap.type \in MapTypes
    /\ readState \in ReadStates
    /\ exitStatus = 255 =>
          /\ msgs # <<>>
          /\ msgs[Len(msgs)] \in {"aborting", "Problem writing MIDI Output"}

\* With the example file loaded, bytes were read in every kind of state and
\* the process is still in its loop.
C37_Witness ==
    /\ applied = ExampleIni
    /\ pc \in {"while", "read", "for"}
    /\ Len(inp) >= 4
    /\ readState \in {"PROCESS_CC_PARM", "PROCESS_CC_CC", "PROCESS_CC_PB", "PROCESS_PB"}

(***************************************************************************)
(* C38.  Once the interrupt signal has been delivered during stream        *)
(* processing, and provided reads on the transport return (data,           *)
(* would-block or error), the process eventually leaves the processing     *)
(* loop and terminates, after processing at most the one chunk it had      *)
(* already read or reads next; no byte of a chunk being processed when the *)
(* signal arrives is skipped.                                              *)
(***************************************************************************)
\* Three of the runs: no mapping, "midiccmap 1 2" and a rejected pair.
LiveScenarios ==
    { Scenario(<<>>, <<>>, {\hD0, 1}),
      Scenario(<<Cli("NRPN", 1, 2)>>, <<\hB0, 1, 0>>, {127}),
      Scenario(<<Cli("CC", 128, 6)>>, <<>>, {1}) }

InitLive ==
    /\ \E s \in LiveScenarios : args = s.args /\ feed = s.script /\ dev = s.dev
    /\ Fresh

\* The program runs on: the loop test is made, the polling loop's test is
\* made after a read that returned -EAGAIN (a read may return -EAGAIN every
\* time), the next byte of a chunk is processed.
SpecLive ==
    /\ InitLive /\ [][Next]_vars
    /\ WF_vars(While)
    /\ WF_vars(ReadAgain)
    /\ WF_vars(ProcessByte \/ WriteFails)

\* C38: after the signal the process ends; the flag stays cleared and the
\* loop test then leads out of the loop, so that no chunk is read after the
\* one being read or processed; and the for loop is left only after the
\* last byte of the chunk, or on a failed write.
C38_InterruptTerminates ==
    /\ (~keepRunning) ~> (pc = "exit")
    /\ [][ /\ ~keepRunning => ~keepRunning'
           /\ (~keepRunning /\ pc = "while") => pc' \in {"while", "exit"}
           /\ (pc = "for" /\ pc' # "for")
                 => \/ pc' = "while" /\ pending' = 0
                                     /\ Len(inp') = Len(inp) + 1
                    \/ pc' = "exit" /\ exitStatus' = 255 ]_vars

\* The process ended on the signal with status 0 after the whole of a chunk
\* of MaxChunk bytes had been processed.
C38_Witness ==
    /\ pc = "exit" /\ exitStatus = 0 /\ ~keepRunning
    /\ pending = 0
    /\ Len(inp) = MaxChunk
    /\ out = inp

(***************************************************************************)
(* C39.  When a set operation (setCc, setAftertouch, setPitchBendSource:   *)
(* setCcMap, setAtMap, setPbMap) returns an error, the addressed slot      *)
(* keeps its previous entry (type, destination number and both bounds) and *)
(* no other slot is changed; a successful set changes only the addressed   *)
(* slot.                                                                   *)
(***************************************************************************)
\* C39: a set step that is rejected leaves the three tables as they were; a
\* set step that is accepted leaves every slot but the item's as it was.
C39_OnlyAddressedSlot ==
    [][ SetStep =>
          LET item == Head(args)
          IN  IF Rejected'
              THEN ccMaps' = ccMaps /\ atMap' = atMap /\ pbMap' = pbMap
              ELSE CASE item.sel = "AT" -> ccMaps' = ccMaps /\ pbMap' = pbMap
                     [] item.sel = "PB" -> ccMaps' = ccMaps /\ atMap' = atMap
                     [] OTHER ->
                          /\ atMap' = atMap /\ pbMap' = pbMap
                          /\ \A n \in 0 .. map_size - 1 :
                                n # item.n1 => ccMaps'[n] = ccMaps[n] ]_vars

\* A slot that held a mapping was addressed by an item with an unusable
\* range; the item was rejected and the slot holds the mapping still.
C39_Witness ==
    /\ Rejected
    /\ Len(applied) = 1
    /\ SlotOf(Head(args)) = SlotOf(applied[1])
    /\ SlotNow(SlotOf(applied[1])) = EntryOf(applied[1])
    /\ msgs[Len(msgs) - 1] = "unusable range"

====
